---- MODULE Spec2Model ----
(***************************************************************************)
(* Command registry and resolution engine of go-cliutil.                   *)
(*                                                                         *)
(* Go strings are TLA+ strings (Len, SubSeq and \o apply to them).  A      *)
(* reflect.Type is a positive number, NoType is "no type".  A Command      *)
(* (a pointer to a struct embedding *CmdBase) is the index of its record   *)
(* in the registration list `commands`, NoCmd is the nil Command.  An      *)
(* error is the sequence of the individual errors joined into it, nil is   *)
(* the empty sequence.                                                     *)
(***************************************************************************)
EXTENDS Integers, Sequences, FiniteSets, TLC

NoCmd == 0
NoType == 0

\* ------------------------------------------------------------------ bounds
MaxTreeCmds == 3
MaxPathCmds == 4
MaxParents == 2
MaxResolveCmds == 3
MaxTokens == 3
MaxDelegCmds == 3
MaxDelegArgs == 1
MaxParseTokens == 2
MaxRegCmds == 2
MaxFlagSetCmds == 3
MaxOptions == 1
MaxValidateCmds == 3
MaxRawCmds == 2
MaxRawTokens == 2
MaxOptCmds == 2
MaxOptTokens == 2
MaxLayerCmds == 2
MaxLayerTokens == 2
MaxAssignCmds == 1
MaxAssignTokens == 3
MaxPhaseCmds == 2
MaxPhaseTokens == 3
MaxTwiceCmds == 2
MaxSubCommands == 2
MaxFrozenCmds == 2
MaxFrozenTokens == 2
MaxWriters == 3
MaxRebuildCmds == 3
MaxGoroutines == 2

\* ----------------------------------------------------------------- strings
HasPrefix(s, p) == Len(s) >= Len(p) /\ SubSeq(s, 1, Len(p)) = p

TrimPrefix(s, p) == IF HasPrefix(s, p) THEN SubSeq(s, Len(p) + 1, Len(s)) ELSE s

RECURSIVE TrimLeft(_, _)
TrimLeft(s, cutset) ==
    IF Len(s) > 0 /\ SubSeq(s, 1, 1) \in cutset
    THEN TrimLeft(SubSeq(s, 2, Len(s)), cutset)
    ELSE s

RECURSIVE TrimRight(_, _)
TrimRight(s, cutset) ==
    IF Len(s) > 0 /\ SubSeq(s, Len(s), Len(s)) \in cutset
    THEN TrimRight(SubSeq(s, 1, Len(s) - 1), cutset)
    ELSE s

WhiteSpace == {" ", "\t", "\n", "\r"}

TrimSpace(s) == TrimRight(TrimLeft(s, WhiteSpace), WhiteSpace)

\* fmt.Sprintf("%s.%s", a, b)
Dotted(a, b) == a \o "." \o b

\* strings.Join(toks[1..k], ".")
RECURSIVE JoinDots(_, _)
JoinDots(toks, k) ==
    IF k = 0 THEN ""
    ELSE IF k = 1 THEN toks[1]
    ELSE JoinDots(toks, k - 1) \o "." \o toks[k]

\* ------------------------------------------------------------------ errors
Err(kind, a, b) == [kind |-> kind, a |-> a, b |-> b]

Nil == << >>

RECURSIVE FlattenTo(_, _)
FlattenTo(seqs, n) == IF n = 0 THEN << >> ELSE FlattenTo(seqs, n - 1) \o seqs[n]

\* the concatenation of a sequence of sequences
Flatten(seqs) == FlattenTo(seqs, Len(seqs))

\* WithErr(err, sentinel, ...): the error joined with a sentinel
WithErr(err, kind, a) == err \o << Err(kind, a, "") >>

HasKind(err, kind) == \E i \in 1..Len(err) : err[i].kind = kind

\* ------------------------------------------------------------- flag defs
FlagDef(name, shortcut, usage, s, b, i, i64) ==
    [Name |-> name, Shortcut |-> shortcut, Usage |-> usage,
     String |-> s, Bool |-> b, Int |-> i, Int64 |-> i64]

\* the built-in global flag set (shortcuts 'v', 'q', 't', 'f' as bytes; the
\* usage texts, of which only emptiness is ever read, are cut to a word)
GlobalFlagDefs ==
    << FlagDef("verbosity", 118, "Verbosity", FALSE, FALSE, TRUE, FALSE),
       FlagDef("quiet", 113, "Disable", FALSE, TRUE, FALSE, FALSE),
       FlagDef("timeout", 116, "timeout", FALSE, FALSE, TRUE, FALSE),
       FlagDef("dry-run", 0, "Show", FALSE, TRUE, FALSE, FALSE),
       FlagDef("force", 102, "Force", FALSE, TRUE, FALSE, FALSE) >>

\* number of non-nil bindings among String/Bool/Int/Int64
NumTypes(fd) ==
    (IF fd.String THEN 1 ELSE 0) + (IF fd.Bool THEN 1 ELSE 0)
    + (IF fd.Int THEN 1 ELSE 0) + (IF fd.Int64 THEN 1 ELSE 0)

FlagNameChars ==
    {"a", "b", "c", "d", "e", "f", "g", "h", "i", "j", "k", "l", "m",
     "n", "o", "p", "q", "r", "s", "t", "u", "v", "w", "x", "y", "z",
     "0", "1", "2", "3", "4", "5", "6", "7", "8", "9", "-"}

\* flagNameRegex.MatchString: ^[a-z0-9-]+$
flagNameRegex(s) ==
    Len(s) >= 1 /\ \A i \in 1..Len(s) : SubSeq(s, i, i) \in FlagNameChars

\* ------------------------------------------------------------- commands
\* NewCmdBase: the descriptor as constructed, before registration
NewCmdBase(type, name, flagName, delegateTo, flagSets, argDefs) ==
    [type |-> type, name |-> name, flagName |-> flagName,
     delegateTo |-> delegateTo, flagSets |-> flagSets, argDefs |-> argDefs,
     parentTypes |-> << >>, subCommands |-> << >>]

\* an ArgDef; String says whether its binding target is non-nil
ArgDef(name, required, s) == [Name |-> name, Required |-> required, String |-> s]

\* The FlagSets a command can be given, by pointer.  "global" is the global
\* FlagSet, whose FlagDefs are the variable flagset.
UserFlagSets ==
    [typed |-> << FlagDef("count", 99, "How many", FALSE, FALSE, TRUE, FALSE) >>,
     untyped |-> << FlagDef("raw", 0, "No binding", FALSE, FALSE, FALSE, FALSE) >>,
     twotypes |-> << FlagDef("both", 0, "Two bindings", TRUE, TRUE, FALSE, FALSE) >>,
     control |-> << FlagDef("bell", 7, "Ring", FALSE, TRUE, FALSE, FALSE),
                    FlagDef("del", 127, "Delete", FALSE, TRUE, FALSE, FALSE) >>,
     high |-> << FlagDef("wide", 200, "Wide", FALSE, TRUE, FALSE, FALSE) >>,
     dup |-> << FlagDef("twin", 0, "First", FALSE, TRUE, FALSE, FALSE),
                FlagDef("twin", 0, "Second", TRUE, FALSE, FALSE, FALSE) >>,
     limit |-> << FlagDef("limit", 0, "At most", FALSE, FALSE, TRUE, FALSE) >>]

FlagSetDefs(global, fs) == IF fs = "global" THEN global ELSE UserFlagSets[fs]

EmptyMap == [k \in {} |-> NoCmd]

Put(m, k, v) == [x \in DOMAIN m \cup {k} |-> IF x = k THEN v ELSE m[x]]

\* a map read: the zero value when the key is absent
Get(m, k) == IF k \in DOMAIN m THEN m[k] ELSE NoCmd

NoRet ==
    [op |-> "none", err |-> Nil, cmd |-> NoCmd, path |-> "", args |-> << >>,
     inPath |-> "", inArgs |-> << >>]

\* a sync.RWMutex nobody holds
Unlocked == [writer |-> 0, readers |-> {}]

Goroutines == 1..MaxGoroutines

\* a goroutine: the package function it is in (at), and the Writer it passes
Idle == [at |-> "idle", w |-> "nil"]

\* WriterArgs, or no args at all
WriterArgs(nil, quiet, verbosity) == [nil |-> nil, Quiet |-> quiet, Verbosity |-> verbosity]

\* a cliWriter; loud, v2 and v3 are nil until asked for
cliWriter(quiet, verbosity, useLevel) ==
    [quiet |-> quiet, verbosity |-> verbosity, useLevel |-> useLevel,
     loud |-> 0, v2 |-> 0, v3 |-> 0]

VARIABLES
    commands,         \* flat registration-ordered list of descriptors
    commandsTypeMap,  \* reflect.Type -> Command
    commandsPathMap,  \* dotted path -> Command
    flagCommandMap,   \* trigger flag-name -> Command
    flagset,          \* FlagDefs of the global FlagSet
    writer,           \* the process-wide Writer, "nil" until set
    flagValues,       \* binding targets of the flags: FlagSet -> flag name -> text
    argValues,        \* binding targets of the arguments, per command
    options,          \* the package-level CLIOptions: its originalFlags
    pc,               \* position of the program: startup, ready, failed, panic
    ret,              \* what the last call was given and returned
    cliWriters,       \* the cliWriter objects created so far; a Writer is an index, 0 is nil
    printMu,          \* sync.RWMutex: the goroutine holding Lock, those holding RLock
    errorMu,          \* sync.RWMutex, as printMu
    goroutines        \* what each goroutine is executing

vars ==
    << commands, commandsTypeMap, commandsPathMap, flagCommandMap, flagset, writer,
       flagValues, argValues, options, pc, ret, cliWriters, printMu, errorMu, goroutines >>

\* the writers, their locks and the goroutines using them
outputVars == << cliWriters, printMu, errorMu, goroutines >>

Init ==
    /\ commands = << >>
    /\ commandsTypeMap = EmptyMap
    /\ commandsPathMap = EmptyMap
    /\ flagCommandMap = EmptyMap
    /\ flagset = GlobalFlagDefs
    /\ writer = "nil"
    /\ flagValues = EmptyMap
    /\ argValues = << >>
    /\ options = [originalFlags |-> << >>]
    /\ pc = "startup"
    /\ ret = NoRet
    /\ cliWriters = << >>
    /\ printMu = Unlocked
    /\ errorMu = Unlocked
    /\ goroutines = [g \in Goroutines |-> Idle]

\* GetFlagSet / GetGlobalFlagSet: the one global FlagSet
GetFlagSet == flagset

GetGlobalFlagSet == flagset

\* ------------------------------------------------------------ AddCLIOption
\* the errors AddCLIOption collects for flagDef against the global FlagDefs fs
AddCLIOptionErrs(fs, flagDef) ==
    (IF flagDef.Name = "" THEN << Err("empty", "Name", "") >>
     ELSE IF ~flagNameRegex(flagDef.Name) THEN << Err("invalid flag name", flagDef.Name, "") >>
     ELSE << >>)
    \o (IF \E i \in 1..Len(fs) : fs[i].Name = flagDef.Name
        THEN << Err("duplicate flag", "global flags", "") >> ELSE << >>)
    \o (IF NumTypes(flagDef) # 1
        THEN << Err("flag type is not discoverable", flagDef.Name, "") >> ELSE << >>)
    \o (IF TrimSpace(flagDef.Usage) = "" THEN << Err("empty", "Usage", "") >> ELSE << >>)

\* the error AddCLIOption returns
AddCLIOptionErr(fs, flagDef) ==
    IF AddCLIOptionErrs(fs, flagDef) = Nil THEN Nil
    ELSE WithErr(AddCLIOptionErrs(fs, flagDef), "flag validation failed", flagDef.Name)

\* a variant that appends without looking at the collected errors
AppendUnchecked(fs, flagDef) == Append(fs, flagDef)

\* the global FlagDefs after AddCLIOption
AddCLIOptionFlagDefs(fs, flagDef) ==
    IF AddCLIOptionErrs(fs, flagDef) = Nil THEN Append(fs, flagDef) ELSE fs

AddCLIOption(flagDef) ==
    /\ flagset' = AddCLIOptionFlagDefs(flagset, flagDef)
    /\ ret' = [NoRet EXCEPT !.op = "AddCLIOption", !.err = AddCLIOptionErr(flagset, flagDef),
                            !.inPath = flagDef.Name]
    /\ UNCHANGED << commands, commandsTypeMap, commandsPathMap, flagCommandMap, writer,
                    flagValues, argValues, pc,
                    options, outputVars >>

\* --------------------------------------------------------- RegisterCommand
\* the FlagDef RegisterCommand auto-creates for a trigger flag-name
TriggerFlagDef(cmd) ==
    FlagDef(cmd.flagName, 0, "Run " \o cmd.name \o " command", FALSE, TRUE, FALSE, FALSE)

\* one conflict error per global flag of that name
ConflictErrs(fs, flagName) ==
    Flatten([i \in 1..Len(fs) |->
        IF fs[i].Name = flagName
        THEN << Err("FlagName conflicts with existing global flag", flagName, fs[i].Name) >>
        ELSE << >>])

RegisterCommandErr(fs, cmd) ==
    IF cmd.flagName = "" THEN Nil
    ELSE LET errs == ConflictErrs(fs, cmd.flagName) \o AddCLIOptionErr(fs, TriggerFlagDef(cmd))
         IN IF errs = Nil THEN Nil
            ELSE WithErr(errs, "command registration failed", cmd.name)

RegisterCommand(cmd, parents) ==
    /\ commands' = Append(commands, [cmd EXCEPT !.parentTypes = cmd.parentTypes \o parents])
    /\ commandsTypeMap' = Put(commandsTypeMap, cmd.type, Len(commands) + 1)
    /\ flagset' = IF cmd.flagName = "" THEN flagset
                  ELSE AddCLIOptionFlagDefs(GetGlobalFlagSet, TriggerFlagDef(cmd))
    /\ ret' = [NoRet EXCEPT !.op = "RegisterCommand",
                            !.err = RegisterCommandErr(GetGlobalFlagSet, cmd),
                            !.cmd = Len(commands) + 1]
    /\ argValues' = Append(argValues, [i \in 1..Len(cmd.argDefs) |-> ""])
    /\ UNCHANGED << commandsPathMap, flagCommandMap, writer, flagValues, pc,
                    options, outputVars >>

\* ---------------------------------------------------------------- FullNames
Panicked == [panic |-> TRUE, names |-> << >>]

\* CmdBase.FullNames of command c: per declared parent, the parent's LAST full
\* name (each earlier one is overwritten in names[i]) followed by the leaf
\* name.  A parent type absent from the type map is a nil Command, and the
\* call on it panics; at depth 0 the parent chain has a cycle and the
\* recursion never returns (the stack overflows).
RECURSIVE FullNamesRec(_, _, _, _)
FullNamesRec(cs, tm, c, depth) ==
    IF depth = 0 THEN Panicked
    ELSE IF Len(cs[c].parentTypes) = 0 THEN [panic |-> FALSE, names |-> << cs[c].name >>]
    ELSE LET pts == cs[c].parentTypes
             sub == [i \in 1..Len(pts) |->
                       IF pts[i] \in DOMAIN tm
                       THEN FullNamesRec(cs, tm, tm[pts[i]], depth - 1)
                       ELSE Panicked]
         IN IF \E i \in 1..Len(pts) : sub[i].panic THEN Panicked
            ELSE [panic |-> FALSE,
                  names |-> [i \in 1..Len(pts) |->
                               IF Len(sub[i].names) = 0 THEN ""
                               ELSE Dotted(sub[i].names[Len(sub[i].names)], cs[c].name)]]

FullNames(cs, tm, c) == FullNamesRec(cs, tm, c, Len(cs) + 1)

\* --------------------------------------------------------- BuildCommandTree
\* a variant that puts the child at the head of the parent's list
AddSubCommandFront(cs, parent, c) ==
    [cs EXCEPT ![parent].subCommands = << c >> \o @]

AddSubCommand(cs, parent, c) ==
    [cs EXCEPT ![parent].subCommands = Append(@, c)]

RECURSIVE PutAll(_, _, _)
PutAll(m, keys, v) ==
    IF Len(keys) = 0 THEN m ELSE PutAll(Put(m, Head(keys), v), Tail(keys), v)

ParentNotFound(parentType, name) ==
    << Err("parent command type not found for command", ToString(parentType), name) >>

\* the inner loop of BuildCommandTree over the parent types of command c, from the k-th on
RECURSIVE BuildParents(_, _, _, _)
BuildParents(b, tm, c, k) ==
    IF k > Len(b.commands[c].parentTypes) THEN b
    ELSE LET parentType == b.commands[c].parentTypes[k]
         IN IF parentType \notin DOMAIN tm
            THEN [b EXCEPT !.err = ParentNotFound(parentType, b.commands[c].name)]
            ELSE LET cs == AddSubCommand(b.commands, tm[parentType], c)
                     fns == FullNames(cs, tm, c)
                 IN IF fns.panic THEN [b EXCEPT !.commands = cs, !.panic = TRUE]
                    ELSE BuildParents([b EXCEPT !.commands = cs,
                                                !.pathMap = PutAll(b.pathMap, fns.names, c)],
                                      tm, c, k + 1)

\* the first loop of BuildCommandTree, from the c-th registered command on
RECURSIVE BuildCmds(_, _, _)
BuildCmds(b, tm, c) ==
    IF c > Len(b.commands) THEN b
    ELSE IF Len(b.commands[c].parentTypes) = 0
    THEN BuildCmds([b EXCEPT !.pathMap = Put(b.pathMap, b.commands[c].name, c)], tm, c + 1)
    ELSE LET r == BuildParents(b, tm, c, 1)
         IN IF r.panic \/ r.err # Nil THEN r ELSE BuildCmds(r, tm, c + 1)

\* the second loop: the trigger flag-name index
RECURSIVE BuildFlagMap(_, _, _)
BuildFlagMap(fm, cs, c) ==
    IF c > Len(cs) THEN fm
    ELSE BuildFlagMap(IF cs[c].flagName # "" THEN Put(fm, cs[c].flagName, c) ELSE fm, cs, c + 1)

\* BuildCommandTree run on the registry (cs, tm, pm, fm)
\* a build that refuses a path index that is already filled
BuildResultOnce(cs, tm, pm, fm) ==
    LET r == BuildCmds([commands |-> cs, pathMap |-> pm, err |-> Nil, panic |-> FALSE], tm, 1)
    IN IF DOMAIN pm # {}
       THEN [commands |-> cs, pathMap |-> pm, err |-> << Err("already built", "", "") >>,
             panic |-> FALSE, flagMap |-> fm]
       ELSE [commands |-> r.commands, pathMap |-> r.pathMap, err |-> r.err,
             panic |-> r.panic,
             flagMap |-> IF r.panic \/ r.err # Nil THEN fm
                         ELSE BuildFlagMap(fm, r.commands, 1)]

BuildResult(cs, tm, pm, fm) ==
    LET r == BuildCmds([commands |-> cs, pathMap |-> pm, err |-> Nil, panic |-> FALSE], tm, 1)
    IN [commands |-> r.commands, pathMap |-> r.pathMap, err |-> r.err, panic |-> r.panic,
        flagMap |-> IF r.panic \/ r.err # Nil THEN fm ELSE BuildFlagMap(fm, r.commands, 1)]

BuildCommandTree ==
    LET r == BuildResult(commands, commandsTypeMap, commandsPathMap, flagCommandMap)
    IN /\ commands' = r.commands
       /\ commandsPathMap' = r.pathMap
       /\ flagCommandMap' = r.flagMap
       /\ pc' = IF r.panic THEN "panic" ELSE IF r.err # Nil THEN "failed" ELSE "ready"
       /\ ret' = [NoRet EXCEPT !.op = "BuildCommandTree", !.err = r.err]
       /\ UNCHANGED << commandsTypeMap, flagset, writer, flagValues, argValues,
                    options, outputVars >>

\* GetExactCommand
GetExactCommand(pm, path) == Get(pm, path)

\* -------------------------------------------------------- GetDefaultCommand
\* a variant that reports the delegate's last full name whether or not it
\* begins with the path
DelegatePathAlways(names, k, path) ==
    IF Len(names) = 0 THEN path ELSE names[Len(names)]

\* a variant that reports the delegate's first full name below the path,
\* whether or not the delegate is registered there
DelegatePathBelow(names, k, path) ==
    IF Len(names) = 0 THEN path ELSE Dotted(path, names[1])

\* the loop over the delegate's full names: each name that begins with the
\* path found so far replaces it
RECURSIVE DelegatePath(_, _, _)
DelegatePath(names, k, path) ==
    IF k > Len(names) THEN path
    ELSE DelegatePath(names, k + 1, IF HasPrefix(names[k], path) THEN names[k] ELSE path)

\* the delegate branch, once the delegate's full names are known
DelegateResult(defaultCmd, path, fns) ==
    IF fns.panic THEN [cmd |-> defaultCmd, path |-> path, panic |-> TRUE]
    ELSE [cmd |-> defaultCmd, path |-> DelegatePath(fns.names, 1, path), panic |-> FALSE]

GetDefaultCommand(cs, tm, pm, path, args) ==
    LET cmd == GetExactCommand(pm, path)
        keep == [cmd |-> cmd, path |-> path, panic |-> FALSE]
    IN IF cmd = NoCmd THEN keep
       ELSE IF cs[cmd].delegateTo = NoType THEN keep
       ELSE IF Len(args) = 0 THEN keep
       ELSE IF HasPrefix(args[1], "-") THEN keep
       ELSE IF cs[cmd].delegateTo \notin DOMAIN tm THEN keep
       ELSE DelegateResult(tm[cs[cmd].delegateTo], path,
                           FullNames(cs, tm, tm[cs[cmd].delegateTo]))

\* --------------------------------------------------------- findBestCmdMatch
\* n: the number of tokens before the first one with a leading dash
RECURSIVE LeadingTokens(_, _)
LeadingTokens(args, i) ==
    IF i > Len(args) \/ HasPrefix(args[i], "-") THEN i - 1 ELSE LeadingTokens(args, i + 1)

\* tryPath after the first k tokens
RECURSIVE TryPath(_, _)
TryPath(args, k) ==
    IF k = 0 THEN ""
    ELSE IF k = 1 THEN TrimLeft(Dotted("", args[1]), {"."})
    ELSE Dotted(TryPath(args, k - 1), args[k])

\* the loop over tryPaths, longest first; n counts down beside it. r is what
\* GetDefaultCommand returned for the n-th tryPath
RECURSIVE TryPaths(_, _, _, _, _)
TryResult(cs, tm, pm, args, n, r) ==
    IF r.panic THEN [path |-> "", remainingArgs |-> << >>, panic |-> TRUE]
    ELSE IF r.cmd # NoCmd
    THEN [path |-> r.path, remainingArgs |-> SubSeq(args, n + 1, Len(args)), panic |-> FALSE]
    ELSE TryPaths(cs, tm, pm, args, n - 1)

TryPaths(cs, tm, pm, args, n) ==
    IF n = 0 THEN [path |-> "", remainingArgs |-> << >>, panic |-> FALSE]
    ELSE TryResult(cs, tm, pm, args, n, GetDefaultCommand(cs, tm, pm, TryPath(args, n), args))

findBestCmdMatch(cs, tm, pm, args) ==
    LET r == TryPaths(cs, tm, pm, args, LeadingTokens(args, 1))
    IN IF r.path = "" THEN [r EXCEPT !.remainingArgs = args] ELSE r

\* --------------------------------------------------------- ValidateCommands
\* every FlagSet reference of every command, in the order the loops meet them
FlagSetRefs(cs) == Flatten([c \in 1..Len(cs) |-> cs[c].flagSets])

\* 1: duplicate FlagDef names, each distinct FlagSet once
DuplicateErrs(global, fs) ==
    LET defs == FlagSetDefs(global, fs)
    IN Flatten([j \in 1..Len(defs) |->
         IF \E i \in 1..(j - 1) : defs[i].Name = defs[j].Name
         THEN << Err("duplicate FlagDef in FlagSet", defs[j].Name, fs) >>
         ELSE << >>])

AllDuplicateErrs(cs, global) ==
    LET refs == FlagSetRefs(cs)
    IN Flatten([j \in 1..Len(refs) |->
         IF \E i \in 1..(j - 1) : refs[i] = refs[j] THEN << >>
         ELSE DuplicateErrs(global, refs[j])])

\* 2: shortcuts
ShortcutErrs(cs, global) ==
    Flatten([c \in 1..Len(cs) |->
      Flatten([k \in 1..Len(cs[c].flagSets) |->
        LET defs == FlagSetDefs(global, cs[c].flagSets[k])
        IN Flatten([j \in 1..Len(defs) |->
             IF defs[j].Shortcut # 0 /\ defs[j].Shortcut > 127
             THEN << Err("shortcut must be a single ASCII character", cs[c].name, defs[j].Name) >>
             ELSE << >>])])])

\* 3: subcommands cannot have FlagName
SubCmdFlagNameErrs(cs) ==
    Flatten([c \in 1..Len(cs) |->
      IF Len(cs[c].parentTypes) > 0 /\ cs[c].flagName # ""
      THEN << Err("subcommands cannot have FlagName", cs[c].name, "") >>
      ELSE << >>])

ValidateCommandsErr(cs, global) ==
    AllDuplicateErrs(cs, global) \o ShortcutErrs(cs, global) \o SubCmdFlagNameErrs(cs)

ValidateCommands ==
    /\ ret' = [NoRet EXCEPT !.op = "ValidateCommands",
                            !.err = ValidateCommandsErr(commands, flagset)]
    /\ UNCHANGED << commands, commandsTypeMap, commandsPathMap, flagCommandMap, flagset,
                    writer, flagValues, argValues, pc,
                    options, outputVars >>

\* --------------------------------------------------------------- Initialize
\* SetWriter(w), then ValidateCommands, then BuildCommandTree unless that failed
Initialize(w) ==
    LET verr == ValidateCommandsErr(commands, flagset)
        r == BuildResult(commands, commandsTypeMap, commandsPathMap, flagCommandMap)
    IN /\ writer' = w
       /\ IF w = "nil"
          THEN /\ pc' = "panic"
               /\ ret' = [NoRet EXCEPT !.op = "Initialize"]
               /\ UNCHANGED << commands, commandsPathMap, flagCommandMap >>
          ELSE IF verr # Nil
          THEN /\ pc' = "failed"
               /\ ret' = [NoRet EXCEPT !.op = "Initialize", !.err = verr]
               /\ UNCHANGED << commands, commandsPathMap, flagCommandMap >>
          ELSE /\ commands' = r.commands
               /\ commandsPathMap' = r.pathMap
               /\ flagCommandMap' = r.flagMap
               /\ pc' = IF r.panic THEN "panic" ELSE IF r.err # Nil THEN "failed" ELSE "ready"
               /\ ret' = [NoRet EXCEPT !.op = "Initialize", !.err = r.err]
       /\ UNCHANGED << commandsTypeMap, flagset, flagValues, argValues,
                    options, outputVars >>

\* ------------------------------------------------------------ flag parsing
\* strings.Index(s, ch) for a one-character ch: 0-based, -1 when absent
RECURSIVE IndexFrom(_, _, _)
IndexFrom(s, ch, i) ==
    IF i > Len(s) THEN -1
    ELSE IF SubSeq(s, i, i) = ch THEN i - 1
    ELSE IndexFrom(s, ch, i + 1)

Index(s, ch) == IndexFrom(s, ch, 1)

\* the flag name of a raw token: at most two leading dashes and any =value removed
FlagNameOf(flag) ==
    LET name == TrimPrefix(TrimPrefix(flag, "-"), "-")
        equalPos == Index(name, "=")
    IN IF equalPos # -1 THEN SubSeq(name, 1, equalPos) ELSE name

\* the text after the first "=" of a raw token
FlagValueOf(flag) ==
    LET equalPos == Index(flag, "=")
    IN IF equalPos # -1 THEN SubSeq(flag, equalPos + 2, Len(flag)) ELSE ""

Digits == {"0", "1", "2", "3", "4", "5", "6", "7", "8", "9"}

IsNumber(s) == Len(s) >= 1 /\ \A i \in 1..Len(s) : SubSeq(s, i, i) \in Digits

\* FlagSet.FlagNames
FlagNames(defs) == [i \in 1..Len(defs) |-> defs[i].Name]

InSeq(x, seq) == \E i \in 1..Len(seq) : seq[i] = x

\* FlagSet.Parse: the set's own flags are consumed and written through to
\* their targets, every other token is returned in order; a numeric flag
\* whose text is no number is a parse error of this layer.
FlagSetParse(defs, args, values) ==
    LET Mine(t) == HasPrefix(t, "-") /\ InSeq(FlagNameOf(t), FlagNames(defs))
        Other(t) == ~Mine(t)
        Def(t) == defs[CHOOSE i \in 1..Len(defs) : defs[i].Name = FlagNameOf(t)]
        Bad(t) == Mine(t) /\ (Def(t).Int \/ Def(t).Int64) /\ ~IsNumber(FlagValueOf(t))
        Last(name) == CHOOSE i \in 1..Len(args) :
                         /\ Mine(args[i]) /\ FlagNameOf(args[i]) = name
                         /\ \A j \in (i + 1)..Len(args) :
                               ~(Mine(args[j]) /\ FlagNameOf(args[j]) = name)
        set == {FlagNameOf(args[i]) : i \in {j \in 1..Len(args) : Mine(args[j]) /\ ~Bad(args[j])}}
    IN [args |-> SelectSeq(args, Other),
        err |-> Flatten([i \in 1..Len(args) |->
                  IF Bad(args[i]) THEN << Err("flag parse failed", args[i], "") >> ELSE << >>]),
        values |-> [n \in DOMAIN values \cup set |->
                      IF n \in set /\ ~Bad(args[Last(n)]) THEN FlagValueOf(args[Last(n)])
                      ELSE IF n \in DOMAIN values THEN values[n] ELSE ""]]

\* the layers up to and including the first one that fails
RECURSIVE ParseFlagSetsUntilError(_, _, _, _)
ParseFlagSetsUntilError(flagSets, global, k, acc) ==
    IF k > Len(flagSets) \/ acc.err # Nil THEN acc
    ELSE LET fs == flagSets[k]
             r == FlagSetParse(FlagSetDefs(global, fs), acc.args,
                               IF fs \in DOMAIN acc.values THEN acc.values[fs] ELSE EmptyMap)
         IN ParseFlagSetsUntilError(flagSets, global, k + 1,
               [args |-> r.args, err |-> acc.err \o r.err,
                values |-> Put(acc.values, fs, r.values)])

\* CmdBase.ParseFlagSets: every FlagSet in declared order, each given what the
\* one before returned; every layer's error is kept and all are joined
RECURSIVE ParseFlagSetsFrom(_, _, _, _)
ParseFlagSetsFrom(flagSets, global, k, acc) ==
    IF k > Len(flagSets) THEN acc
    ELSE LET fs == flagSets[k]
             r == FlagSetParse(FlagSetDefs(global, fs), acc.args,
                               IF fs \in DOMAIN acc.values THEN acc.values[fs] ELSE EmptyMap)
         IN ParseFlagSetsFrom(flagSets, global, k + 1,
               [args |-> r.args, err |-> acc.err \o r.err,
                values |-> Put(acc.values, fs, r.values)])

ParseFlagSets(flagSets, global, args, values) ==
    ParseFlagSetsFrom(flagSets, global, 1, [args |-> args, err |-> Nil, values |-> values])

\* strings.Join(seq, sep)
RECURSIVE Join(_, _)
Join(seq, sep) ==
    IF Len(seq) = 0 THEN ""
    ELSE IF Len(seq) = 1 THEN seq[1]
    ELSE seq[1] \o sep \o Join(Tail(seq), sep)

\* extractFlags: the tokens with a leading dash
extractFlags(args) ==
    LET IsFlag(arg) == HasPrefix(arg, "-") IN SelectSeq(args, IsFlag)

\* a variant that knows the global flag names only
validateFlagsGlobalOnly(flagSets, global, originalFlags) ==
    LET Unknown(flag) == ~InSeq(FlagNameOf(flag), FlagNames(global))
        unknownFlags == SelectSeq(originalFlags, Unknown)
    IN IF Len(unknownFlags) > 0
       THEN << Err("unknown flag(s)", Join(unknownFlags, ", "), "") >>
       ELSE Nil

\* CmdRunner.validateFlags: the original flags whose name is no known flag name
validateFlags(flagSets, global, originalFlags) ==
    LET knownFlags == FlagNames(global)
                      \o Flatten([k \in 1..Len(flagSets) |->
                                    FlagNames(FlagSetDefs(global, flagSets[k]))])
        Unknown(flag) == ~InSeq(FlagNameOf(flag), knownFlags)
        unknownFlags == SelectSeq(originalFlags, Unknown)
    IN IF Len(originalFlags) = 0 THEN Nil
       ELSE IF Len(unknownFlags) > 0
       THEN << Err("unknown flag(s)", Join(unknownFlags, ", "), "") >>
       ELSE Nil

\* --------------------------------------------------------------- AssignArgs
RequiredCount(argDefs) == Cardinality({i \in 1..Len(argDefs) : argDefs[i].Required})

\* the assignment without the count of required arguments up front
AssignArgsUncounted(argDefs, args, values) ==
    [err |-> Flatten([i \in 1..Len(argDefs) |->
               IF i > Len(args) /\ argDefs[i].Required
               THEN << Err("required argument missing", argDefs[i].Name, "") >>
               ELSE << >>]),
     values |-> [i \in 1..Len(argDefs) |->
                   IF i <= Len(args) /\ argDefs[i].String THEN args[i] ELSE values[i]]]

\* the assignment with every argument beyond the tokens reported as missing
AssignArgsAllRequired(argDefs, args, values) ==
    IF Len(args) < RequiredCount(argDefs)
    THEN [err |-> << Err("expected at least n arguments", ToString(RequiredCount(argDefs)),
                         ToString(Len(args))) >>,
          values |-> values]
    ELSE [err |-> Flatten([i \in 1..Len(argDefs) |->
                    IF i > Len(args)
                    THEN << Err("required argument missing", argDefs[i].Name, "") >>
                    ELSE << >>]),
          values |-> [i \in 1..Len(argDefs) |->
                        IF i <= Len(args) /\ argDefs[i].String THEN args[i] ELSE values[i]]]

AssignArgs(argDefs, args, values) ==
    IF Len(args) < RequiredCount(argDefs)
    THEN [err |-> << Err("expected at least n arguments", ToString(RequiredCount(argDefs)),
                         ToString(Len(args))) >>,
          values |-> values]
    ELSE [err |-> Flatten([i \in 1..Len(argDefs) |->
                    IF i > Len(args) /\ argDefs[i].Required
                    THEN << Err("required argument missing", argDefs[i].Name, "") >>
                    ELSE << >>]),
          values |-> [i \in 1..Len(argDefs) |->
                        IF i <= Len(args) /\ argDefs[i].String THEN args[i] ELSE values[i]]]

\* ----------------------------------------------------------------- ParseCmd
\* ValidateCmds: no path may map to a nil Command
ValidateCmds(pm) ==
    IF \E k \in DOMAIN pm : pm[k] = NoCmd
    THEN << Err("command has nil handler", "", "") >> ELSE Nil

\* ParseCmd's failure exit: the error wrapped with ErrShowUsage and the args
Fail(r, err, args) == [r EXCEPT !.err = WithErr(err, "show usage", Join(args, " "))]

\* ParseCmd from AssignArgs on
ParseAssigned(parsed, args, cmd, a) ==
    IF a.err # Nil
    THEN Fail([parsed EXCEPT !.argValues[cmd] = a.values],
              << Err("assigning args failed", "", "") >>, args)
    ELSE [parsed EXCEPT !.argValues[cmd] = a.values]

\* the step without its two gates: arguments are assigned whatever the flags did
ParseFlaggedUngated(cs, avals, args, found, p, ferr) ==
    ParseAssigned([found EXCEPT !.args = p.args, !.flagValues = p.values], args, found.cmd,
                  AssignArgs(cs[found.cmd].argDefs, p.args, avals[found.cmd]))

\* ParseCmd from validateFlags on; p is what ParseFlagSets returned
ParseFlagged(cs, avals, args, found, p, ferr) ==
    LET parsed == [found EXCEPT !.args = p.args, !.flagValues = p.values]
    IN IF p.err # Nil THEN Fail(parsed, << Err("flags parsing failed", "", "") >>, args)
       ELSE IF ferr # Nil THEN Fail(parsed, ferr, args)
       ELSE ParseAssigned(parsed, args, found.cmd,
                          AssignArgs(cs[found.cmd].argDefs, p.args, avals[found.cmd]))

\* ParseCmd from ParseFlagSets on; d is what GetDefaultCommand returned
ParseResolved(cs, global, avals, originalFlags, args, base, m, d) ==
    IF d.panic THEN [base EXCEPT !.panic = TRUE]
    ELSE IF d.cmd = NoCmd
    THEN Fail([base EXCEPT !.path = m.path, !.args = m.remainingArgs],
              << Err("command not found", m.path, "") >>, args)
    ELSE ParseFlagged(cs, avals, args,
                      [base EXCEPT !.cmd = d.cmd, !.path = m.path, !.args = m.remainingArgs],
                      ParseFlagSets(cs[d.cmd].flagSets, global, m.remainingArgs,
                                    base.flagValues),
                      validateFlags(cs[d.cmd].flagSets, global, originalFlags))

\* ParseCmd from GetDefaultCommand on; m is what findBestCmdMatch returned
ParseMatched(cs, tm, pm, global, avals, originalFlags, args, base, m) ==
    IF m.panic THEN [base EXCEPT !.panic = TRUE]
    ELSE IF m.path = ""
    THEN Fail([base EXCEPT !.args = m.remainingArgs], << Err("unknown command", "", "") >>,
              args)
    ELSE ParseResolved(cs, global, avals, originalFlags, args, base, m,
                       GetDefaultCommand(cs, tm, pm, m.path, m.remainingArgs))

\* ParseCmd with its defaulted args; originalFlags are those of the runner's Options
ParseDefaulted(cs, tm, pm, global, avals, originalFlags, args, base) ==
    IF ValidateCmds(pm) # Nil THEN Fail(base, ValidateCmds(pm), args)
    ELSE ParseMatched(cs, tm, pm, global, avals, originalFlags, args, base,
                      findBestCmdMatch(cs, tm, pm, args))

\* what ParseCmd computes: no args at all stand for "help"
ParseCmdResult(cs, tm, pm, global, fvals, avals, originalFlags, osArgs) ==
    LET args == IF Len(osArgs) = 0 THEN << "help" >> ELSE osArgs
    IN ParseDefaulted(cs, tm, pm, global, avals, originalFlags, args,
                      [cmd |-> NoCmd, err |-> Nil, panic |-> FALSE, path |-> "",
                       args |-> args, flagValues |-> fvals, argValues |-> avals])

ParseCmd(originalFlags, osArgs) ==
    LET r == ParseCmdResult(commands, commandsTypeMap, commandsPathMap, flagset,
                            flagValues, argValues, originalFlags, osArgs)
    IN /\ flagValues' = r.flagValues
       /\ argValues' = r.argValues
       /\ pc' = IF r.panic THEN "panic" ELSE pc
       /\ ret' = [NoRet EXCEPT !.op = "ParseCmd", !.err = r.err, !.cmd = r.cmd,
                               !.path = r.path, !.args = r.args, !.inArgs = osArgs]
       /\ UNCHANGED << commands, commandsTypeMap, commandsPathMap, flagCommandMap, flagset,
                       writer,
                    options, outputVars >>

\* findBestCmdMatch called on its own
CallFindBestCmdMatch(args) ==
    LET r == findBestCmdMatch(commands, commandsTypeMap, commandsPathMap, args)
    IN /\ pc' = IF r.panic THEN "panic" ELSE pc
       /\ ret' = [NoRet EXCEPT !.op = "findBestCmdMatch", !.path = r.path,
                               !.args = r.remainingArgs, !.inArgs = args]
       /\ UNCHANGED << commands, commandsTypeMap, commandsPathMap, flagCommandMap, flagset,
                       writer, flagValues, argValues,
                    options, outputVars >>

\* a lookup that keeps what it found in the path index
CallGetDefaultCommandCaching(path, args) ==
    LET r == GetDefaultCommand(commands, commandsTypeMap, commandsPathMap, path, args)
    IN /\ pc' = IF r.panic THEN "panic" ELSE pc
       /\ ret' = [NoRet EXCEPT !.op = "GetDefaultCommand", !.cmd = r.cmd, !.path = r.path,
                               !.inPath = path, !.inArgs = args]
       /\ commandsPathMap' = Put(commandsPathMap, path, r.cmd)
       /\ UNCHANGED << commands, commandsTypeMap, flagCommandMap, flagset,
                       writer, flagValues, argValues, options, outputVars >>

\* GetDefaultCommand called on its own
CallGetDefaultCommand(path, args) ==
    LET r == GetDefaultCommand(commands, commandsTypeMap, commandsPathMap, path, args)
    IN /\ pc' = IF r.panic THEN "panic" ELSE pc
       /\ ret' = [NoRet EXCEPT !.op = "GetDefaultCommand", !.cmd = r.cmd, !.path = r.path,
                               !.inPath = path, !.inArgs = args]
       /\ UNCHANGED << commands, commandsTypeMap, commandsPathMap, flagCommandMap, flagset,
                       writer, flagValues, argValues,
                    options, outputVars >>

\* ------------------------------------------------------------------ inputs
\* sequences over S of length at most n
SeqsUpTo(S, n) == UNION {[1..k -> S] : k \in 0..n}

\* parent declarations of a command of type t: at most max distinct types
\* among 1..n, none its own
ParentLists(t, n, max) ==
    {ps \in SeqsUpTo((1..n) \ {t}, max) : \A i, j \in 1..Len(ps) : i # j => ps[i] # ps[j]}

\* the type of the next command registered: every command is of a type of its own
NextType == Len(commands) + 1

\* -------------------------------------------------- specification: the tree
TreeNames == {"a", "b"}

TreeRegister ==
    /\ pc = "startup"
    /\ Len(commands) < MaxTreeCmds
    /\ \E name \in TreeNames, parents \in ParentLists(NextType, MaxTreeCmds, MaxParents) :
          RegisterCommand(NewCmdBase(NextType, name, "", NoType, << >>, << >>), parents)

TreeBuild ==
    /\ pc = "startup"
    /\ BuildCommandTree

NextTree == TreeRegister \/ TreeBuild

SpecTree == Init /\ [][NextTree]_vars

\* ------------------------------------- specification: paths, distinct names
PathName(t) == SubSeq("abcdefgh", t, t)

PathRegister ==
    /\ pc = "startup"
    /\ Len(commands) < MaxPathCmds
    /\ \E parents \in ParentLists(NextType, MaxPathCmds, MaxParents) :
          RegisterCommand(NewCmdBase(NextType, PathName(NextType), "", NoType, << >>, << >>),
                          parents)

PathBuild ==
    /\ pc = "startup"
    /\ BuildCommandTree

NextPaths == PathRegister \/ PathBuild

SpecPaths == Init /\ [][NextPaths]_vars

\* ------------------------------------------ specification: path resolution
ResolveNames == {"a", "b"}

Tokens == {"a", "b", "--flag", ".a"}

ResolveRegister ==
    /\ pc = "startup"
    /\ Len(commands) < MaxResolveCmds
    /\ \E name \in ResolveNames, parents \in ParentLists(NextType, MaxResolveCmds, 1) :
          RegisterCommand(NewCmdBase(NextType, name, "", NoType, << >>, << >>), parents)

ResolveInit ==
    /\ pc = "startup"
    /\ Initialize("stdout")

\* one resolution per run
ResolveMatch ==
    /\ pc = "ready"
    /\ ret.op = "Initialize"
    /\ \E args \in SeqsUpTo(Tokens, MaxTokens) : CallFindBestCmdMatch(args)

NextResolve == ResolveRegister \/ ResolveInit \/ ResolveMatch

SpecResolve == Init /\ [][NextResolve]_vars

\* ----------------------------------------------- specification: delegation
\* every command has a name of its own; "a" begins "ab" without being its parent
DelegNames == << "a", "ab", "b", "abc" >>

DelegTokens == {"a", "ab", "x", "-f"}

DelegArgTokens == {"x", "-f"}

DelegRegister ==
    /\ pc = "startup"
    /\ Len(commands) < MaxDelegCmds
    /\ \E parents \in ParentLists(NextType, MaxDelegCmds, 1),
          delegateTo \in {NoType} \cup (1..MaxDelegCmds \ {NextType}) :
          RegisterCommand(NewCmdBase(NextType, DelegNames[NextType], "", delegateTo,
                                     << >>, << >>), parents)

DelegInit ==
    /\ pc = "startup"
    /\ Initialize("stdout")

\* one call per run
DelegGetDefault ==
    /\ pc = "ready"
    /\ ret.op = "Initialize"
    /\ \E path \in DOMAIN commandsPathMap \cup {"zz"},
          args \in SeqsUpTo(DelegArgTokens, MaxDelegArgs) :
          CallGetDefaultCommand(path, args)

NextDelegate == DelegRegister \/ DelegInit \/ DelegGetDefault

SpecDelegate == Init /\ [][NextDelegate]_vars

\* ------------------------------- specification: start-up, then one ParseCmd
\* the program parses its command line once
RunParseCmd ==
    /\ pc = "ready"
    /\ ret.op = "Initialize"
    /\ \E osArgs \in SeqsUpTo(DelegTokens, MaxParseTokens) :
          \E originalFlags \in {<< >>, extractFlags(osArgs)} :
             ParseCmd(originalFlags, osArgs)

Next == DelegRegister \/ DelegInit \/ RunParseCmd

Spec == Init /\ [][Next]_vars

\* --------------------------------------------- specification: registration
TriggerNames == {"", "setup", "force", "Set_up"}

OptionDefs ==
    {FlagDef("setup", 0, "Set up", FALSE, TRUE, FALSE, FALSE),
     FlagDef("level", 108, "Level", FALSE, FALSE, TRUE, TRUE),
     FlagDef("raw", 0, "", FALSE, FALSE, FALSE, FALSE)}

RegRegister ==
    /\ pc = "startup"
    /\ Len(commands) < MaxRegCmds
    /\ \E parents \in ParentLists(NextType, MaxRegCmds, 1), flagName \in TriggerNames :
          RegisterCommand(NewCmdBase(NextType, PathName(NextType), flagName, NoType,
                                     << >>, << >>), parents)

RegAddOption ==
    /\ pc = "startup"
    /\ Len(flagset) < Len(GlobalFlagDefs) + MaxOptions
    /\ \E flagDef \in OptionDefs : AddCLIOption(flagDef)

RegValidate ==
    /\ pc = "startup"
    /\ ValidateCommands

RegInit ==
    /\ pc = "startup"
    /\ \E w \in {"nil", "stdout"} : Initialize(w)

NextRegister == RegRegister \/ RegAddOption \/ RegValidate \/ RegInit

SpecRegister == Init /\ [][NextRegister]_vars

\* ------------------------------------ specification: commands with FlagSets
FlagSetLists == {<< >>, << "typed" >>, << "untyped" >>, << "global", "twotypes" >>}

FlagSetsRegister ==
    /\ pc = "startup"
    /\ Len(commands) < MaxFlagSetCmds
    /\ \E parents \in ParentLists(NextType, MaxFlagSetCmds, 1), flagSets \in FlagSetLists :
          RegisterCommand(NewCmdBase(NextType, PathName(NextType), "", NoType,
                                     flagSets, << >>), parents)

FlagSetsValidate ==
    /\ pc = "startup"
    /\ ValidateCommands

FlagSetsInit ==
    /\ pc = "startup"
    /\ Initialize("stdout")

NextFlagSets == FlagSetsRegister \/ FlagSetsValidate \/ FlagSetsInit

SpecFlagSets == Init /\ [][NextFlagSets]_vars

\* ------------------------------------------- specification: ValidateCommands
\* FlagSets are shared by reference: two commands naming the same FlagSet
\* hold the same pointer
ValidateFlagSetLists ==
    {<< >>, << "typed" >>, << "control" >>, << "high" >>, << "dup" >>, << "high", "dup" >>}

ValidateRegister ==
    /\ pc = "startup"
    /\ Len(commands) < MaxValidateCmds
    /\ \E flagSets \in ValidateFlagSetLists :
          RegisterCommand(NewCmdBase(NextType, PathName(NextType), "", NoType,
                                     flagSets, << >>), << >>)

ValidateRun ==
    /\ pc = "startup"
    /\ ValidateCommands

NextValidate == ValidateRegister \/ ValidateRun

SpecValidate == Init /\ [][NextValidate]_vars

\* ------------------------------------------ specification: raw-flag validation
\* validateFlags called on its own for the resolved command cmd; the runner's
\* Options hold the original flags of the command line tokens
CallValidateFlags(cmd, tokens) ==
    /\ ret' = [NoRet EXCEPT !.op = "validateFlags",
                            !.err = validateFlags(commands[cmd].flagSets, GetFlagSet,
                                                  extractFlags(tokens)),
                            !.cmd = cmd, !.inArgs = tokens]
    /\ UNCHANGED << commands, commandsTypeMap, commandsPathMap, flagCommandMap, flagset,
                    writer, flagValues, argValues, pc,
                    options, outputVars >>

RawTokens == {"x", "--count", "-count=5", "--bogus", "---count", "--force"}

RawRegister ==
    /\ pc = "startup"
    /\ Len(commands) < MaxRawCmds
    /\ \E flagSets \in {<< >>, << "typed" >>} :
          RegisterCommand(NewCmdBase(NextType, PathName(NextType), "", NoType,
                                     flagSets, << >>), << >>)

RawInit ==
    /\ pc = "startup"
    /\ Initialize("stdout")

\* one call per run
RawValidate ==
    /\ pc = "ready"
    /\ ret.op = "Initialize"
    /\ \E cmd \in 1..Len(commands), tokens \in SeqsUpTo(RawTokens, MaxRawTokens) :
          CallValidateFlags(cmd, tokens)

NextRawFlags == RawRegister \/ RawInit \/ RawValidate

SpecRawFlags == Init /\ [][NextRawFlags]_vars

\* ---------------------------------------------------- transformFlagCommands
\* the first registered command whose FlagName is flagName, NoCmd when none
FirstWithFlagName(cs, flagName) ==
    IF \E c \in 1..Len(cs) : cs[c].flagName = flagName
    THEN CHOOSE c \in 1..Len(cs) :
            /\ cs[c].flagName = flagName
            /\ \A d \in 1..(c - 1) : cs[d].flagName # flagName
    ELSE NoCmd

\* the transform without its look into the global FlagSet
transformFlagCommandsUnverified(cs, global, args) ==
    IF Len(args) = 0 THEN args
    ELSE IF ~HasPrefix(args[1], "--") THEN args
    ELSE IF FirstWithFlagName(cs, TrimPrefix(args[1], "--")) = NoCmd THEN args
    ELSE << cs[FirstWithFlagName(cs, TrimPrefix(args[1], "--"))].name >> \o Tail(args)

\* a first token "--name" naming the FlagName of a registered command, with a
\* global flag of that name, becomes that command's name
transformFlagCommands(cs, global, args) ==
    IF Len(args) = 0 THEN args
    ELSE IF ~HasPrefix(args[1], "--") THEN args
    ELSE IF FirstWithFlagName(cs, TrimPrefix(args[1], "--")) = NoCmd THEN args
    ELSE IF ~\E i \in 1..Len(global) : global[i].Name = TrimPrefix(args[1], "--") THEN args
    ELSE << cs[FirstWithFlagName(cs, TrimPrefix(args[1], "--"))].name >> \o Tail(args)

\* containsHelpFlag: the first token beginning with --help is removed
containsHelpFlag(args) ==
    IF \E i \in 1..Len(args) : HasPrefix(args[i], "--help")
    THEN LET i == CHOOSE k \in 1..Len(args) :
                     /\ HasPrefix(args[k], "--help")
                     /\ \A j \in 1..(k - 1) : ~HasPrefix(args[j], "--help")
         IN [helpRequested |-> TRUE,
             filteredArgs |-> SubSeq(args, 1, i - 1) \o SubSeq(args, i + 1, Len(args))]
    ELSE [helpRequested |-> FALSE, filteredArgs |-> args]

\* ---------------------------------------------------------- ParseCLIOptions
\* the number a text of digits stands for
RECURSIVE Atoi(_)
Atoi(s) ==
    IF Len(s) = 0 THEN 0
    ELSE 10 * Atoi(SubSeq(s, 1, Len(s) - 1))
         + (CHOOSE d \in 0..9 : ToString(d) = SubSeq(s, Len(s), Len(s)))

DefaultVerbosity == 1

HighVerbosity == 3

ParseVerbosity(verbosity) ==
    IF verbosity < 0 \/ verbosity > HighVerbosity
    THEN << Err("invalid verbosity level", ToString(verbosity), "") >> ELSE Nil

\* *options.verbosity: what the global flags bound, or the flag's default
OptionsVerbosity(values) ==
    IF "verbosity" \in DOMAIN values THEN Atoi(values["verbosity"]) ELSE DefaultVerbosity

\* ParseCLIOptions from flagset.Parse on; flags are the original flags, p is
\* what the global FlagSet's Parse returned. The timeout, a whole number of
\* seconds written out by strconv.Itoa, always converts to a duration.
ParseOptionsParsed(flags, p) ==
    [originalFlags |-> flags, args |-> p.args, values |-> p.values,
     err |-> IF p.err # Nil THEN p.err ELSE ParseVerbosity(OptionsVerbosity(p.values))]

\* ParseCLIOptions from extractFlags on
ParseOptionsFlags(global, values, args) ==
    ParseOptionsParsed(extractFlags(args),
                       FlagSetParse(global, IF Len(args) = 0 THEN << "help" >> ELSE args,
                                    values))

\* ParseCLIOptions from the help check on
ParseOptionsHelp(global, values, h) ==
    ParseOptionsFlags(global, values,
                      IF h.helpRequested THEN << "help" >> \o h.filteredArgs
                      ELSE h.filteredArgs)

\* what ParseCLIOptions computes from os.Args
ParseCLIOptionsResult(cs, global, values, osArgs) ==
    ParseOptionsHelp(global, values,
       containsHelpFlag(transformFlagCommands(cs, global,
          IF Len(osArgs) > 0 THEN Tail(osArgs) ELSE << >>)))

GlobalValues == IF "global" \in DOMAIN flagValues THEN flagValues["global"] ELSE EmptyMap

ParseCLIOptions(osArgs) ==
    LET r == ParseCLIOptionsResult(commands, GetFlagSet, GlobalValues, osArgs)
    IN /\ options' = [options EXCEPT !.originalFlags = r.originalFlags]
       /\ flagValues' = Put(flagValues, "global", r.values)
       /\ ret' = [NoRet EXCEPT !.op = "ParseCLIOptions", !.err = r.err, !.args = r.args,
                               !.inArgs = osArgs]
       /\ UNCHANGED << commands, commandsTypeMap, commandsPathMap, flagCommandMap, flagset,
                       writer, argValues, pc, outputVars >>

\* transformFlagCommands called on its own
CallTransformFlagCommands(args) ==
    /\ ret' = [NoRet EXCEPT !.op = "transformFlagCommands",
                            !.args = transformFlagCommands(commands, GetFlagSet, args),
                            !.inArgs = args]
    /\ UNCHANGED << commands, commandsTypeMap, commandsPathMap, flagCommandMap, flagset,
                    writer, flagValues, argValues, options, pc, outputVars >>

\* --------------------------------------- specification: the global options
OptTokens == {"x", "--", "--setup", "--force", "--Set_up", "--help", "--verbosity=7"}

OptRegister ==
    /\ pc = "startup"
    /\ ret.op \in {"none", "RegisterCommand"}
    /\ Len(commands) < MaxOptCmds
    /\ \E flagName \in TriggerNames :
          RegisterCommand(NewCmdBase(NextType, PathName(NextType), flagName, NoType,
                                     << >>, << >>), << >>)

\* one call per run, after the registrations
OptTransform ==
    /\ ret.op \in {"none", "RegisterCommand"}
    /\ \E args \in SeqsUpTo(OptTokens, MaxOptTokens) : CallTransformFlagCommands(args)

OptParse ==
    /\ ret.op \in {"none", "RegisterCommand"}
    /\ \E args \in SeqsUpTo(OptTokens, MaxOptTokens) :
          \E osArgs \in {<< "prog" >> \o args, args} : ParseCLIOptions(osArgs)

NextOptions == OptRegister \/ OptTransform \/ OptParse

SpecOptions == Init /\ [][NextOptions]_vars

\* --------------------------------------- specification: layered flag parsing
\* ParseFlagSets of a registered command, called on its own
CallParseFlagSets(cmd, args) ==
    LET r == ParseFlagSets(commands[cmd].flagSets, GetFlagSet, args, flagValues)
    IN /\ flagValues' = r.values
       /\ ret' = [NoRet EXCEPT !.op = "ParseFlagSets", !.err = r.err, !.args = r.args,
                               !.cmd = cmd, !.inArgs = args]
       /\ UNCHANGED << commands, commandsTypeMap, commandsPathMap, flagCommandMap, flagset,
                       writer, argValues, options, pc, outputVars >>

LayerFlagSetLists == {<< >>, << "typed" >>, << "typed", "limit" >>, << "limit", "typed" >>}

LayerTokens == {"x", "--count=5", "--count=abc", "--limit=2", "--limit=z"}

LayerRegister ==
    /\ pc = "startup"
    /\ ret.op \in {"none", "RegisterCommand"}
    /\ Len(commands) < MaxLayerCmds
    /\ \E flagSets \in LayerFlagSetLists :
          RegisterCommand(NewCmdBase(NextType, PathName(NextType), "", NoType,
                                     flagSets, << >>), << >>)

\* one call per run
LayerParse ==
    /\ ret.op \in {"none", "RegisterCommand"}
    /\ \E cmd \in 1..Len(commands), args \in SeqsUpTo(LayerTokens, MaxLayerTokens) :
          CallParseFlagSets(cmd, args)

NextLayers == LayerRegister \/ LayerParse

SpecLayers == Init /\ [][NextLayers]_vars

\* ------------------------------------ specification: positional arguments
\* AssignArgs of a registered command, called on its own
CallAssignArgs(cmd, args) ==
    LET a == AssignArgs(commands[cmd].argDefs, args, argValues[cmd])
    IN /\ argValues' = [argValues EXCEPT ![cmd] = a.values]
       /\ ret' = [NoRet EXCEPT !.op = "AssignArgs", !.err = a.err, !.cmd = cmd,
                               !.inArgs = args]
       /\ UNCHANGED << commands, commandsTypeMap, commandsPathMap, flagCommandMap, flagset,
                       writer, flagValues, options, pc, outputVars >>

AssignArgDefLists ==
    {<< >>,
     << ArgDef("src", TRUE, TRUE) >>,
     << ArgDef("src", TRUE, TRUE), ArgDef("dst", TRUE, TRUE) >>,
     << ArgDef("src", TRUE, TRUE), ArgDef("note", FALSE, TRUE) >>,
     << ArgDef("note", FALSE, TRUE), ArgDef("src", TRUE, TRUE) >>,
     << ArgDef("src", TRUE, FALSE), ArgDef("note", FALSE, TRUE) >>}

AssignTokens == {"x", "y", "z"}

AssignRegister ==
    /\ pc = "startup"
    /\ ret.op \in {"none", "RegisterCommand"}
    /\ Len(commands) < MaxAssignCmds
    /\ \E argDefs \in AssignArgDefLists :
          RegisterCommand(NewCmdBase(NextType, PathName(NextType), "", NoType,
                                     << >>, argDefs), << >>)

\* one call per run, after the registrations
AssignCall ==
    /\ ret.op \in {"none", "RegisterCommand"}
    /\ \E cmd \in 1..Len(commands), args \in SeqsUpTo(AssignTokens, MaxAssignTokens) :
          CallAssignArgs(cmd, args)

NextAssign == AssignRegister \/ AssignCall

SpecAssign == Init /\ [][NextAssign]_vars

\* ------------------------------------- specification: the phases of ParseCmd
PhaseFlagSetLists == {<< >>, << "typed" >>}

PhaseArgDefLists == {<< >>, << ArgDef("src", TRUE, TRUE) >>,
                     << ArgDef("note", FALSE, TRUE), ArgDef("src", TRUE, TRUE) >>}

PhaseTokens == {"a", "x", "--count=5", "--count=abc"}

PhaseRegister ==
    /\ pc = "startup"
    /\ Len(commands) < MaxPhaseCmds
    /\ \E flagSets \in PhaseFlagSetLists, argDefs \in PhaseArgDefLists :
          RegisterCommand(NewCmdBase(NextType, PathName(NextType), "", NoType,
                                     flagSets, argDefs), << >>)

PhaseInit ==
    /\ pc = "startup"
    /\ Initialize("stdout")

\* one call per run; the runner's Options hold the flags of the command line
PhaseParseCmd ==
    /\ pc = "ready"
    /\ ret.op = "Initialize"
    /\ \E osArgs \in SeqsUpTo(PhaseTokens, MaxPhaseTokens) :
          ParseCmd(extractFlags(osArgs), osArgs)

NextPhases == PhaseRegister \/ PhaseInit \/ PhaseParseCmd

SpecPhases == Init /\ [][NextPhases]_vars

\* ------------------------------- specification: the start-up steps repeated
TwiceTriggers == {"", "setup"}

TwiceFlagSetLists == {<< >>, << "dup" >>}

TwiceRegister ==
    /\ pc = "startup"
    /\ ret.op \in {"none", "RegisterCommand"}
    /\ Len(commands) < MaxTwiceCmds
    /\ \E name \in TreeNames, parents \in ParentLists(NextType, MaxTwiceCmds, 1),
          flagName \in TwiceTriggers, flagSets \in TwiceFlagSetLists :
          RegisterCommand(NewCmdBase(NextType, name, flagName, NoType, flagSets, << >>),
                          parents)

\* BuildCommandTree, any number of times while the lists of sub-commands it
\* appends to stay within MaxSubCommands
TwiceBuild ==
    /\ pc # "panic"
    /\ \A c \in 1..Len(commands) : Len(commands[c].subCommands) <= MaxSubCommands
    /\ BuildCommandTree

TwiceValidate ==
    /\ pc # "panic"
    /\ ValidateCommands

NextTwice == TwiceRegister \/ TwiceBuild \/ TwiceValidate

SpecTwice == Init /\ [][NextTwice]_vars

\* ------------------------------------------------------------------ writers
registryVars ==
    << commands, commandsTypeMap, commandsPathMap, flagCommandMap, flagset, writer,
       flagValues, argValues, options >>

\* NewWriter: nil args stand for verbosity 1; a verbosity outside 1..3 panics
NewWriter(args) ==
    LET a == IF args.nil THEN WriterArgs(FALSE, FALSE, 1) ELSE args
    IN /\ IF a.Verbosity < 1 \/ 3 < a.Verbosity
          THEN /\ pc' = "panic"
               /\ ret' = [NoRet EXCEPT !.op = "NewWriter",
                             !.err = << Err("Invalid verbosity", ToString(a.Verbosity), "") >>]
               /\ UNCHANGED cliWriters
          ELSE /\ cliWriters' = Append(cliWriters, cliWriter(a.Quiet, a.Verbosity, 0))
               /\ ret' = [NoRet EXCEPT !.op = "NewWriter", !.cmd = Len(cliWriters) + 1]
               /\ UNCHANGED pc
       /\ UNCHANGED << registryVars, printMu, errorMu, goroutines >>

\* cliWriter.V2: the writer's v2, made on first use with the writer's
\* verbosity and use level 2
V2(w) ==
    /\ IF cliWriters[w].v2 # 0
       THEN /\ ret' = [NoRet EXCEPT !.op = "V2", !.cmd = cliWriters[w].v2]
            /\ UNCHANGED cliWriters
       ELSE /\ cliWriters' = Append([cliWriters EXCEPT ![w].v2 = Len(cliWriters) + 1],
                                    cliWriter(FALSE, cliWriters[w].verbosity, 2))
            /\ ret' = [NoRet EXCEPT !.op = "V2", !.cmd = Len(cliWriters) + 1]
    /\ UNCHANGED << registryVars, pc, printMu, errorMu, goroutines >>

\* cliWriter.V3
V3(w) ==
    /\ IF cliWriters[w].v3 # 0
       THEN /\ ret' = [NoRet EXCEPT !.op = "V3", !.cmd = cliWriters[w].v3]
            /\ UNCHANGED cliWriters
       ELSE /\ cliWriters' = Append([cliWriters EXCEPT ![w].v3 = Len(cliWriters) + 1],
                                    cliWriter(FALSE, cliWriters[w].verbosity, 3))
            /\ ret' = [NoRet EXCEPT !.op = "V3", !.cmd = Len(cliWriters) + 1]
    /\ UNCHANGED << registryVars, pc, printMu, errorMu, goroutines >>

\* cliWriter.Loud: the writer's loud, made on first use with no quiet, no
\* verbosity and no use level set
Loud(w) ==
    /\ IF cliWriters[w].loud # 0
       THEN /\ ret' = [NoRet EXCEPT !.op = "Loud", !.cmd = cliWriters[w].loud]
            /\ UNCHANGED cliWriters
       ELSE /\ cliWriters' = Append([cliWriters EXCEPT ![w].loud = Len(cliWriters) + 1],
                                    cliWriter(FALSE, 0, 0))
            /\ ret' = [NoRet EXCEPT !.op = "Loud", !.cmd = Len(cliWriters) + 1]
    /\ UNCHANGED << registryVars, pc, printMu, errorMu, goroutines >>

\* cliWriter.Printf: ret.args is what reaches the writer's stream
Printf(w) ==
    /\ ret' = [NoRet EXCEPT !.op = "Printf", !.cmd = w,
                            !.args = IF cliWriters[w].quiet THEN << >>
                                     ELSE IF cliWriters[w].verbosity < cliWriters[w].useLevel
                                     THEN << >>
                                     ELSE << "text" >>]
    /\ UNCHANGED << registryVars, pc, cliWriters, printMu, errorMu, goroutines >>

\* --------------------------------------------- specification: the writers
WriterArgsMenu ==
    {WriterArgs(TRUE, FALSE, 1)}
        \cup {WriterArgs(FALSE, quiet, verbosity) : quiet \in BOOLEAN, verbosity \in 0..4}

HeapHasRoom == Len(cliWriters) < MaxWriters

WritersNew ==
    /\ pc # "panic"
    /\ HeapHasRoom
    /\ \E args \in WriterArgsMenu : NewWriter(args)

WritersV2 ==
    /\ pc # "panic"
    /\ HeapHasRoom
    /\ \E w \in 1..Len(cliWriters) : V2(w)

WritersV3 ==
    /\ pc # "panic"
    /\ HeapHasRoom
    /\ \E w \in 1..Len(cliWriters) : V3(w)

WritersLoud ==
    /\ pc # "panic"
    /\ HeapHasRoom
    /\ \E w \in 1..Len(cliWriters) : Loud(w)

WritersPrintf ==
    /\ pc # "panic"
    /\ \E w \in 1..Len(cliWriters) : Printf(w)

NextWriters == WritersNew \/ WritersV2 \/ WritersV3 \/ WritersLoud \/ WritersPrintf

SpecWriters == Init /\ [][NextWriters]_vars

\* ----------------------------- specification: the calls after the tree is built
\* GetExactCommand called on its own
CallGetExactCommand(path) ==
    /\ ret' = [NoRet EXCEPT !.op = "GetExactCommand",
                            !.cmd = GetExactCommand(commandsPathMap, path), !.inPath = path]
    /\ UNCHANGED << commands, commandsTypeMap, commandsPathMap, flagCommandMap, flagset,
                    writer, flagValues, argValues, options, pc, outputVars >>

FrozenTokens == {"ab", "x", "--setup"}

FrozenPaths == {"a", "ab", "ab.a", "x"}

\* "a" may be a child of "ab", "ab" may delegate to "a" and have the trigger
\* flag; any further command may be both a child of "ab" and delegate to "a"
FrozenRegister ==
    /\ pc = "startup"
    /\ Len(commands) < MaxFrozenCmds
    /\ \E parents \in {<< >>} \cup {<< t >> : t \in {2} \ {NextType}},
          delegateTo \in {NoType} \cup ({1} \ {NextType}),
          flagName \in IF NextType = 2 THEN TwiceTriggers ELSE {""} :
          RegisterCommand(NewCmdBase(NextType, DelegNames[NextType], flagName, delegateTo,
                                     << >>, << >>), parents)

FrozenInit ==
    /\ pc = "startup"
    /\ Initialize("stdout")

FrozenGetExact ==
    /\ pc = "ready"
    /\ \E path \in FrozenPaths : CallGetExactCommand(path)

FrozenGetDefault ==
    /\ pc = "ready"
    /\ \E path \in FrozenPaths, args \in {<< >>} \cup {<< t >> : t \in FrozenTokens} :
          CallGetDefaultCommand(path, args)

FrozenMatch ==
    /\ pc = "ready"
    /\ \E args \in SeqsUpTo(FrozenTokens, MaxFrozenTokens) : CallFindBestCmdMatch(args)

FrozenTransform ==
    /\ pc = "ready"
    /\ \E args \in SeqsUpTo(FrozenTokens, MaxFrozenTokens) : CallTransformFlagCommands(args)

FrozenParseCmd ==
    /\ pc = "ready"
    /\ \E osArgs \in SeqsUpTo(FrozenTokens, MaxFrozenTokens) :
          ParseCmd(extractFlags(osArgs), osArgs)

NextFrozen ==
    \/ FrozenRegister \/ FrozenInit \/ FrozenGetExact \/ FrozenGetDefault
    \/ FrozenMatch \/ FrozenTransform \/ FrozenParseCmd

SpecFrozen == Init /\ [][NextFrozen]_vars

\* ------------------------------------------- the process-wide writer handle
\* Each package function is two steps of its goroutine: the first takes the
\* function's lock, if it has one, and the second accesses the package
\* variable writer and releases the lock.  Between the two steps the
\* goroutine is at the access.
handleFrame ==
    << commands, commandsTypeMap, commandsPathMap, flagCommandMap, flagset, flagValues,
       argValues, options, ret, cliWriters >>

CanLock(mu) == mu.writer = 0 /\ mu.readers = {}

CanRLock(mu) == mu.writer = 0

\* a method call through the handle: a nil Writer panics
ThroughHandle == IF writer = "nil" THEN "panic" ELSE pc

\* the same for a read that no lock orders against SetWriter's write: while
\* a write is under way the two words of the interface value may be read
\* torn, and the call through them may crash
ThroughRacyHandle ==
    IF \E h \in Goroutines : goroutines[h].at = "SetWriter"
    THEN {ThroughHandle, "panic"} ELSE {ThroughHandle}

\* SetWriter: printMu.Lock()
SetWriterLock(g, w) ==
    /\ pc # "panic"
    /\ goroutines[g] = Idle
    /\ CanLock(printMu)
    /\ printMu' = [printMu EXCEPT !.writer = g]
    /\ goroutines' = [goroutines EXCEPT ![g] = [at |-> "SetWriter", w |-> w]]
    /\ UNCHANGED << handleFrame, writer, pc, errorMu >>

\* SetWriter: writer = w, ensureWriter(), and the deferred Unlock
SetWriterUnlock(g) ==
    /\ pc # "panic"
    /\ goroutines[g].at = "SetWriter"
    /\ writer' = goroutines[g].w
    /\ printMu' = Unlocked
    /\ goroutines' = [goroutines EXCEPT ![g] = Idle]
    /\ UNCHANGED << handleFrame, pc, errorMu >>

\* GetWriter: printMu.RLock()
GetWriterRLock(g) ==
    /\ pc # "panic"
    /\ goroutines[g] = Idle
    /\ CanRLock(printMu)
    /\ printMu' = [printMu EXCEPT !.readers = @ \cup {g}]
    /\ goroutines' = [goroutines EXCEPT ![g].at = "GetWriter"]
    /\ UNCHANGED << handleFrame, writer, pc, errorMu >>

\* GetWriter: return writer, and the deferred RUnlock
GetWriterRUnlock(g) ==
    /\ pc # "panic"
    /\ goroutines[g].at = "GetWriter"
    /\ printMu' = [printMu EXCEPT !.readers = @ \ {g}]
    /\ goroutines' = [goroutines EXCEPT ![g] = Idle]
    /\ UNCHANGED << handleFrame, writer, pc, errorMu >>

\* the package's Loud: it takes no lock
LoudCall(g) ==
    /\ pc # "panic"
    /\ goroutines[g] = Idle
    /\ goroutines' = [goroutines EXCEPT ![g].at = "Loud"]
    /\ UNCHANGED << handleFrame, writer, pc, printMu, errorMu >>

\* the package's Loud: return writer.Loud()
LoudReturn(g) ==
    /\ pc # "panic"
    /\ goroutines[g].at = "Loud"
    /\ pc' \in ThroughRacyHandle
    /\ goroutines' = [goroutines EXCEPT ![g] = Idle]
    /\ UNCHANGED << handleFrame, writer, printMu, errorMu >>

\* the package's Printf: printMu.RLock()
PrintfRLock(g) ==
    /\ pc # "panic"
    /\ goroutines[g] = Idle
    /\ CanRLock(printMu)
    /\ printMu' = [printMu EXCEPT !.readers = @ \cup {g}]
    /\ goroutines' = [goroutines EXCEPT ![g].at = "Printf"]
    /\ UNCHANGED << handleFrame, writer, pc, errorMu >>

\* the package's Printf: writer.Printf(...), and the deferred RUnlock
PrintfRUnlock(g) ==
    /\ pc # "panic"
    /\ goroutines[g].at = "Printf"
    /\ pc' = ThroughHandle
    /\ printMu' = [printMu EXCEPT !.readers = @ \ {g}]
    /\ goroutines' = [goroutines EXCEPT ![g] = Idle]
    /\ UNCHANGED << handleFrame, writer, errorMu >>

\* the package's Errorf: errorMu.RLock()
ErrorfRLock(g) ==
    /\ pc # "panic"
    /\ goroutines[g] = Idle
    /\ CanRLock(errorMu)
    /\ errorMu' = [errorMu EXCEPT !.readers = @ \cup {g}]
    /\ goroutines' = [goroutines EXCEPT ![g].at = "Errorf"]
    /\ UNCHANGED << handleFrame, writer, pc, printMu >>

\* the package's Errorf: writer.Errorf(...), and the deferred RUnlock
ErrorfRUnlock(g) ==
    /\ pc # "panic"
    /\ goroutines[g].at = "Errorf"
    /\ pc' \in ThroughRacyHandle
    /\ errorMu' = [errorMu EXCEPT !.readers = @ \ {g}]
    /\ goroutines' = [goroutines EXCEPT ![g] = Idle]
    /\ UNCHANGED << handleFrame, writer, printMu >>

\* --------------------------------- specification: goroutines on the handle
HandleWriters == {"stdout", "buffer"}

NextHandle ==
    \/ \E g \in Goroutines, w \in HandleWriters : SetWriterLock(g, w)
    \/ \E g \in Goroutines : SetWriterUnlock(g)
    \/ \E g \in Goroutines : GetWriterRLock(g)
    \/ \E g \in Goroutines : GetWriterRUnlock(g)
    \/ \E g \in Goroutines : LoudCall(g)
    \/ \E g \in Goroutines : LoudReturn(g)
    \/ \E g \in Goroutines : PrintfRLock(g)
    \/ \E g \in Goroutines : PrintfRUnlock(g)
    \/ \E g \in Goroutines : ErrorfRLock(g)
    \/ \E g \in Goroutines : ErrorfRUnlock(g)

SpecHandle == Init /\ [][NextHandle]_vars

\* ------------------------------------ specification: the tree built again
\* commands under up to MaxParents parents registered before them, so that
\* every build succeeds; BuildCommandTree runs any number of times
RebuildRegister ==
    /\ pc = "startup"
    /\ Len(commands) < MaxRebuildCmds
    /\ \E name \in TreeNames, parents \in ParentLists(NextType, Len(commands), MaxParents) :
          RegisterCommand(NewCmdBase(NextType, name, "", NoType, << >>, << >>), parents)

NextRebuild == RebuildRegister \/ TwiceBuild

SpecRebuild == Init /\ [][NextRebuild]_vars

\* ------------------------------------------------------------------ claims
\* what the claims say about resolution, stated from the tokens alone
\* the number of tokens before the first one with a leading dash
LeadingCount(tokens) ==
    CHOOSE n \in 0..Len(tokens) :
       /\ \A i \in 1..n : ~HasPrefix(tokens[i], "-")
       /\ n < Len(tokens) => HasPrefix(tokens[n + 1], "-")

\* the prefix lengths k in 1..n whose dotted join is a key of the path index
IndexedPrefixes(tokens) ==
    {k \in 1..LeadingCount(tokens) : JoinDots(tokens, k) \in DOMAIN commandsPathMap}

Longest(K) == CHOOSE k \in K : \A j \in K : j <= k

NoDelegates == \A c \in 1..Len(commands) : commands[c].delegateTo = NoType

\* C1: without delegation, resolving tokens t1..tm whose first n tokens have no
\* leading dash returns the dotted join of the first k tokens for the largest
\* k in 1..n present in the path index, with t(k+1)..tm as remaining arguments
\* (and no path at all when no such k exists).
C1_LongestPrefixWins ==
    (ret.op = "findBestCmdMatch" /\ NoDelegates) =>
       IF IndexedPrefixes(ret.inArgs) = {}
       THEN ret.path = ""
       ELSE /\ ret.path = JoinDots(ret.inArgs, Longest(IndexedPrefixes(ret.inArgs)))
            /\ ret.args = SubSeq(ret.inArgs, Longest(IndexedPrefixes(ret.inArgs)) + 1,
                                 Len(ret.inArgs))

\* the tokens ParseCmd works on: no tokens at all stand for "help"
ParsedTokens == IF Len(ret.inArgs) = 0 THEN << "help" >> ELSE ret.inArgs

\* the command whose path is the longest indexed prefix of the tokens
MatchedCmd == commandsPathMap[JoinDots(ParsedTokens, Longest(IndexedPrefixes(ParsedTokens)))]

RemainingTokens ==
    SubSeq(ParsedTokens, Longest(IndexedPrefixes(ParsedTokens)) + 1, Len(ParsedTokens))

\* C2: when the matched command has a delegate and no tokens remain after the
\* matched path, or the first remaining token has a leading dash, ParseCmd
\* resolves to the matched command itself and not to the delegate.
C2_NoDelegationWithoutArgument ==
    (/\ ret.op = "ParseCmd"
     /\ IndexedPrefixes(ParsedTokens) # {}
     /\ commands[MatchedCmd].delegateTo # NoType
     /\ (RemainingTokens = << >> \/ HasPrefix(RemainingTokens[1], "-")))
    => ret.cmd = MatchedCmd

\* a GetDefaultCommand call that delegates: the path names a command with a
\* registered delegate and the first remaining token has no leading dash
Delegates ==
    /\ ret.op = "GetDefaultCommand"
    /\ ret.inPath \in DOMAIN commandsPathMap
    /\ commands[commandsPathMap[ret.inPath]].delegateTo \in DOMAIN commandsTypeMap
    /\ Len(ret.inArgs) >= 1
    /\ ~HasPrefix(ret.inArgs[1], "-")

DelegateOf(path) == commandsTypeMap[commands[commandsPathMap[path]].delegateTo]

\* the dotted paths the path index holds for command c
PathsOf(c) == {q \in DOMAIN commandsPathMap : commandsPathMap[q] = c}

\* C3 as stated: when delegation fires, the delegate is returned and the
\* reported path is one of the delegate's own registered paths that extends
\* the originally matched path.
C3_DelegatePathExtendsMatch ==
    Delegates =>
       /\ ret.cmd = DelegateOf(ret.inPath)
       /\ ret.path \in PathsOf(DelegateOf(ret.inPath))
       /\ HasPrefix(ret.path, Dotted(ret.inPath, ""))

\* C3: when delegation fires, the delegate is returned; the reported path is
\* one of the delegate's dotted paths beginning, as plain text, with the
\* originally matched path when the delegate has such a path, and is the
\* originally matched path unchanged when it has none.
C3_DelegatePathOrUnchanged ==
    Delegates =>
       /\ ret.cmd = DelegateOf(ret.inPath)
       /\ IF \E q \in PathsOf(DelegateOf(ret.inPath)) : HasPrefix(q, ret.inPath)
          THEN ret.path \in PathsOf(DelegateOf(ret.inPath)) /\ HasPrefix(ret.path, ret.inPath)
          ELSE ret.path = ret.inPath

\* delegation fired for a delegate that is no descendant of the matched path
C3_Witness ==
    /\ Delegates
    /\ ret.cmd # commandsPathMap[ret.inPath]
    /\ ret.path = ret.inPath

Built == ret.op = "BuildCommandTree"

\* the commands with a declared parent type that is not in the type map
Orphans ==
    {c \in 1..Len(commands) :
        \E i \in 1..Len(commands[c].parentTypes) :
            commands[c].parentTypes[i] \notin DOMAIN commandsTypeMap}

\* C4: when some child declares a parent type that was never registered,
\* BuildCommandTree does not panic and returns an error that names a missing
\* parent type together with the child declaring it, whatever the position of
\* the missing parent among the child's parents.
C4_MissingParentIsReported ==
    (Built /\ Orphans # {}) =>
        /\ pc # "panic"
        /\ \E c \in Orphans : \E i \in 1..Len(commands[c].parentTypes) :
              /\ commands[c].parentTypes[i] \notin DOMAIN commandsTypeMap
              /\ InSeq(Err("parent command type not found for command",
                           ToString(commands[c].parentTypes[i]), commands[c].name),
                       ret.err)

\* C5: after a successful BuildCommandTree, for every command c, every declared
\* parent p of c and every dotted path q the index maps to p, the index maps
\* q.name(c) to c.
C5_PathCompleteness ==
    (Built /\ pc = "ready") =>
        \A c \in 1..Len(commands) : \A i \in 1..Len(commands[c].parentTypes) :
            \A q \in DOMAIN commandsPathMap :
                commandsPathMap[q] = Get(commandsTypeMap, commands[c].parentTypes[i])
                    => GetExactCommand(commandsPathMap, Dotted(q, commands[c].name)) = c

\* C6: after a successful BuildCommandTree, every dotted path of a command
\* registered under several parents resolves, through GetExactCommand, to that
\* very command.
C6_SharedIdentity ==
    (Built /\ pc = "ready") =>
        \A c \in 1..Len(commands) :
            Len(commands[c].parentTypes) >= 2 =>
                LET fns == FullNames(commands, commandsTypeMap, c).names
                IN \A k \in 1..Len(fns) : GetExactCommand(commandsPathMap, fns[k]) = c

\* two different descriptors claim the same dotted path
Collision ==
    \E c, d \in 1..Len(commands) :
        /\ c # d
        /\ LET fc == FullNames(commands, commandsTypeMap, c)
               fd == FullNames(commands, commandsTypeMap, d)
           IN /\ ~fc.panic /\ ~fd.panic
              /\ \E i \in 1..Len(fc.names), j \in 1..Len(fd.names) : fc.names[i] = fd.names[j]

\* C7: when two different descriptors claim the identical dotted path,
\* BuildCommandTree returns a registration error.
C7_CollisionIsAnError ==
    (Built /\ Collision) => (ret.err # Nil /\ pc = "failed")

\* a step that is one RegisterCommand call of a command with a trigger flag-name
RegistersTrigger ==
    /\ Len(commands') = Len(commands) + 1
    /\ commands'[Len(commands')].flagName # ""

TriggerName == commands'[Len(commands')].flagName

TriggerTaken == \E i \in 1..Len(flagset) : flagset[i].Name = TriggerName

BoolFlagAppended ==
    /\ Len(flagset') = Len(flagset) + 1
    /\ SubSeq(flagset', 1, Len(flagset)) = flagset
    /\ flagset'[Len(flagset')].Name = TriggerName
    /\ flagset'[Len(flagset')].Bool
    /\ NumTypes(flagset'[Len(flagset')]) = 1

\* C8 as stated: a trigger flag-name that is already a global flag name makes
\* RegisterCommand return an error and leave the global flag set unchanged;
\* every other trigger flag-name gets a boolean global flag appended.
C8_ConflictElseAppended ==
    [][RegistersTrigger =>
          IF TriggerTaken THEN ret'.err # Nil /\ flagset' = flagset
          ELSE BoolFlagAppended]_vars

\* C8: a trigger flag-name that is already a global flag name makes
\* RegisterCommand return an error and leave the global flag set unchanged;
\* a free name of lowercase letters, digits and dashes gets a boolean global
\* flag appended and no error; a free name of any other form is an error too
\* and the global flag set stays unchanged.
C8_ConflictElseValidAppended ==
    [][RegistersTrigger =>
          IF TriggerTaken THEN ret'.err # Nil /\ flagset' = flagset
          ELSE IF flagNameRegex(TriggerName) THEN ret'.err = Nil /\ BoolFlagAppended
          ELSE ret'.err # Nil /\ flagset' = flagset]_vars

\* a second command was refused the trigger flag-name the first one created
C8_Witness ==
    /\ ret.op = "RegisterCommand"
    /\ ret.cmd = 2
    /\ commands[1].flagName = "setup"
    /\ commands[2].flagName = "setup"
    /\ HasKind(ret.err, "FlagName conflicts with existing global flag")
    /\ Len(flagset) = Len(GlobalFlagDefs) + 1

\* C9: RegisterCommand of a command with a trigger flag-name and one or more
\* parents returns an error and creates no global flag of that name.
C9_SubCommandTriggerRejected ==
    (/\ ret.op = "RegisterCommand"
     /\ commands[ret.cmd].flagName # ""
     /\ commands[ret.cmd].parentTypes # << >>)
    => /\ ret.err # Nil
       /\ \A c \in 1..(ret.cmd - 1) : commands[c].flagName # commands[ret.cmd].flagName
          => \A i \in (Len(GlobalFlagDefs) + 1)..Len(flagset) :
                flagset[i].Name # commands[ret.cmd].flagName

\* some FlagDef of some FlagSet of a registered command has no binding or
\* more than one
UndiscoverableFlagDef ==
    \E c \in 1..Len(commands) : \E k \in 1..Len(commands[c].flagSets) :
       \E i \in 1..Len(FlagSetDefs(flagset, commands[c].flagSets[k])) :
          NumTypes(FlagSetDefs(flagset, commands[c].flagSets[k])[i]) # 1

\* C10: when a FlagDef of a registered command has no binding or more than
\* one, Initialize does not succeed.
C10_UndiscoverableTypeStopsInitialize ==
    (ret.op = "Initialize" /\ UndiscoverableFlagDef) => (ret.err # Nil \/ pc # "ready")

\* a byte that is a printable ASCII character
Printable(b) == b \in 32..126

Validated == ret.op = "ValidateCommands"

ShortcutKind == "shortcut must be a single ASCII character"

\* C11: ValidateCommands reports an error for every flag, in any FlagSet of
\* any registered command, whose shortcut is set and is no printable
\* character: control characters 1..31 and 127 as well as values above 127.
C11_NonPrintableShortcutRejected ==
    Validated =>
       \A c \in 1..Len(commands) : \A k \in 1..Len(commands[c].flagSets) :
          LET defs == FlagSetDefs(flagset, commands[c].flagSets[k])
          IN \A j \in 1..Len(defs) :
                (defs[j].Shortcut # 0 /\ ~Printable(defs[j].Shortcut))
                => \E e \in 1..Len(ret.err) :
                      ret.err[e].kind = ShortcutKind /\ ret.err[e].b = defs[j].Name

\* the FlagSets some registered command refers to
ReferencedFlagSets ==
    UNION {{commands[c].flagSets[k] : k \in 1..Len(commands[c].flagSets)} :
              c \in 1..Len(commands)}

\* how many errors of that kind the aggregate holds for that flag name
ErrCount(kind, name) ==
    Cardinality({e \in 1..Len(ret.err) :
                    /\ ret.err[e].kind = kind
                    /\ (ret.err[e].a = name \/ ret.err[e].b = name)})

\* C12: for a FlagSet shared by k registered commands, every violation that
\* ValidateCommands finds in it (a repeated flag name, a shortcut above 127)
\* is in the aggregate error exactly once, whatever k is.
C12_EachFlagSetOnce ==
    Validated =>
       \A fs \in ReferencedFlagSets :
          LET defs == FlagSetDefs(flagset, fs)
          IN \A j \in 1..Len(defs) :
                /\ (\E i \in 1..(j - 1) : defs[i].Name = defs[j].Name)
                   => ErrCount("duplicate FlagDef in FlagSet", defs[j].Name)
                      = Cardinality({i \in 1..(j - 1) : defs[i].Name = defs[j].Name})
                /\ defs[j].Shortcut > 127 => ErrCount(ShortcutKind, defs[j].Name) = 1

\* token t without its first n characters while they are dashes
RECURSIVE StripDashes(_, _)
StripDashes(t, n) ==
    IF n > 0 /\ HasPrefix(t, "-") THEN StripDashes(SubSeq(t, 2, Len(t)), n - 1) ELSE t

\* the text before the first "=" of s
BeforeEquals(s) ==
    IF \E i \in 1..Len(s) : SubSeq(s, i, i) = "="
    THEN SubSeq(s, 1, (CHOOSE i \in 1..Len(s) :
                          /\ SubSeq(s, i, i) = "="
                          /\ \A j \in 1..(i - 1) : SubSeq(s, j, j) # "=") - 1)
    ELSE s

\* the flag names known for command c: the global ones and those of its FlagSets
KnownNames(c) ==
    {flagset[i].Name : i \in 1..Len(flagset)}
    \cup UNION {{FlagSetDefs(flagset, commands[c].flagSets[k])[j].Name :
                    j \in 1..Len(FlagSetDefs(flagset, commands[c].flagSets[k]))} :
                k \in 1..Len(commands[c].flagSets)}

\* the dash-prefixed tokens whose name, with at most n leading dashes
\* stripped, is not known for command c
UnknownTokens(c, tokens, n) ==
    LET Reported(t) == /\ HasPrefix(t, "-")
                       /\ BeforeEquals(StripDashes(t, n)) \notin KnownNames(c)
    IN SelectSeq(tokens, Reported)

UnknownFlagsErr(list) ==
    IF list = << >> THEN Nil ELSE << Err("unknown flag(s)", Join(list, ", "), "") >>

CommandLine(osArgs) == IF Len(osArgs) > 0 THEN Tail(osArgs) ELSE << >>

\* C14: the raw flags that raw-flag validation checks are exactly the
\* dash-prefixed tokens of the command line as it was given, taken before the
\* flag-routing transform and before any other rewriting
C14_RawFlagsFromOriginalInput ==
    ret.op = "ParseCLIOptions" =>
        options.originalFlags = extractFlags(CommandLine(ret.inArgs))

\* the commands that a token "--name" routes to: name is their trigger
\* flag-name and a global flag of that name exists
RoutedBy(token) ==
    {c \in 1..Len(commands) :
        /\ commands[c].flagName # ""
        /\ token = "--" \o commands[c].flagName
        /\ \E i \in 1..Len(GetFlagSet) : GetFlagSet[i].Name = commands[c].flagName}

\* C15: transformFlagCommands keeps the length and every token after the
\* first; the first token becomes a command's name exactly when it is "--" and
\* the trigger flag-name of a registered command that has a global flag, and
\* otherwise stays as it was
C15_OnlyFirstTokenRouted ==
    ret.op = "transformFlagCommands" =>
        /\ Len(ret.args) = Len(ret.inArgs)
        /\ \A i \in 2..Len(ret.inArgs) : ret.args[i] = ret.inArgs[i]
        /\ Len(ret.inArgs) > 0 =>
              IF RoutedBy(ret.inArgs[1]) # {}
              THEN \E c \in RoutedBy(ret.inArgs[1]) : ret.args[1] = commands[c].name
              ELSE ret.args[1] = ret.inArgs[1]

\* a routed first token, with a trigger flag left alone at the second position
C15_Witness ==
    /\ ret.op = "transformFlagCommands"
    /\ Len(ret.inArgs) = 2
    /\ RoutedBy(ret.inArgs[1]) # {}
    /\ RoutedBy(ret.inArgs[2]) # {}
    /\ ret.args[1] # ret.inArgs[1]
    /\ ret.args[2] = ret.inArgs[2]

\* the FlagSets of the command ParseFlagSets was called on
Layers == commands[ret.cmd].flagSets

\* the tokens handed to layer k: the input for the first layer, and what the
\* layer before returned for every other
RECURSIVE LayerInput(_)
LayerInput(k) ==
    IF k = 1 THEN ret.inArgs
    ELSE FlagSetParse(FlagSetDefs(GetFlagSet, Layers[k - 1]), LayerInput(k - 1), EmptyMap).args

\* what Parse of layer k returns for the tokens handed to it
LayerOutput(k) == FlagSetParse(FlagSetDefs(GetFlagSet, Layers[k]), LayerInput(k), EmptyMap)

\* C16: ParseFlagSets runs Parse of every FlagSet in declared order, each on
\* the tokens the one before returned, also after a layer failed: the tokens
\* returned are the last layer's, every layer's flags are bound, the error is
\* nil exactly when no layer failed, and it holds every failing layer's errors
C16_EveryLayerParsed ==
    ret.op = "ParseFlagSets" =>
        /\ ret.args = IF Len(Layers) = 0 THEN ret.inArgs
                      ELSE LayerOutput(Len(Layers)).args
        /\ \A k \in 1..Len(Layers) :
              /\ Layers[k] \in DOMAIN flagValues
              /\ flagValues[Layers[k]] = LayerOutput(k).values
        /\ (ret.err # Nil) <=> \E k \in 1..Len(Layers) : LayerOutput(k).err # Nil
        /\ ret.err = Flatten([k \in 1..Len(Layers) |-> LayerOutput(k).err])

\* two layers fail, and a later layer still binds after an earlier one failed
C16_Witness ==
    /\ ret.op = "ParseFlagSets"
    /\ Len(Layers) = 2
    /\ LayerOutput(1).err # Nil
    /\ LayerOutput(2).err # Nil
    /\ Len(ret.err) = 2

\* the ArgDefs of the command AssignArgs was called on
CalledArgDefs == commands[ret.cmd].argDefs

\* the indices of the required ArgDefs beyond the tokens of the call
MissingRequired ==
    {i \in 1..Len(CalledArgDefs) : i > Len(ret.inArgs) /\ CalledArgDefs[i].Required}

ArityErr(required, got) ==
    << Err("expected at least n arguments", ToString(required), ToString(got)) >>

\* C17: a call of AssignArgs with fewer tokens than required ArgDefs returns
\* the arity error alone and leaves every binding target as it was
C17_ArityFailureBindsNothing ==
    [][(/\ ret'.op = "AssignArgs"
        /\ Len(ret'.inArgs) < RequiredCount(commands[ret'.cmd].argDefs))
       => /\ ret'.err = ArityErr(RequiredCount(commands[ret'.cmd].argDefs), Len(ret'.inArgs))
          /\ argValues' = argValues]_vars

\* an arity failure with a token at hand for a target, which stays unbound
C17_Witness ==
    /\ ret.op = "AssignArgs"
    /\ Len(ret.inArgs) = 1
    /\ RequiredCount(CalledArgDefs) = 2
    /\ CalledArgDefs[1].String
    /\ HasKind(ret.err, "expected at least n arguments")
    /\ argValues[ret.cmd][1] = ""

\* C18: when the arity check passes, every ArgDef that has a token and a
\* target holds that token; the error has one 'missing' entry per required
\* ArgDef beyond the tokens, in order, none for an optional one, and is nil
\* exactly when no required ArgDef lies beyond the tokens
C18_TokensBoundMissingReported ==
    (ret.op = "AssignArgs" /\ Len(ret.inArgs) >= RequiredCount(CalledArgDefs)) =>
        /\ \A i \in 1..Len(CalledArgDefs) :
              (i <= Len(ret.inArgs) /\ CalledArgDefs[i].String) =>
                  argValues[ret.cmd][i] = ret.inArgs[i]
        /\ Len(ret.err) = Cardinality(MissingRequired)
        /\ \A i \in MissingRequired :
              \E k \in 1..Len(ret.err) :
                  ret.err[k] = Err("required argument missing", CalledArgDefs[i].Name, "")
        /\ (ret.err = Nil) <=> (MissingRequired = {})

\* the arity check passes, the first target is bound, and the required
\* second ArgDef has no token
C18_Witness ==
    /\ ret.op = "AssignArgs"
    /\ Len(ret.inArgs) = 1
    /\ RequiredCount(CalledArgDefs) = 1
    /\ MissingRequired = {2}
    /\ argValues[ret.cmd][1] = ret.inArgs[1]
    /\ ret.err # Nil

\* the tokens ParseCmd hands to ParseFlagSets: those left by findBestCmdMatch
PhaseRemaining ==
    findBestCmdMatch(commands, commandsTypeMap, commandsPathMap,
                     IF Len(ret.inArgs) = 0 THEN << "help" >> ELSE ret.inArgs).remainingArgs

\* what ParseFlagSets of the resolved command reports for them
PhaseFlagResult ==
    ParseFlagSets(commands[ret.cmd].flagSets, GetFlagSet, PhaseRemaining, flagValues)

\* what AssignArgs of the resolved command reports for the tokens left over
PhaseArgResult ==
    AssignArgs(commands[ret.cmd].argDefs, PhaseFlagResult.args, argValues[ret.cmd])

\* C19: when ParseCmd fails in flag-set parsing or in argument assignment, its
\* error names the phase and still holds every violation that ParseFlagSets
\* or AssignArgs reported
C19_PhaseViolationsKept ==
    ret.op = "ParseCmd" =>
        /\ HasKind(ret.err, "flags parsing failed") =>
              \A i \in 1..Len(PhaseFlagResult.err) : InSeq(PhaseFlagResult.err[i], ret.err)
        /\ HasKind(ret.err, "assigning args failed") =>
              \A i \in 1..Len(PhaseArgResult.err) : InSeq(PhaseArgResult.err[i], ret.err)

\* C20: a call of BuildCommandTree right after another one, or of
\* ValidateCommands right after another one, on the same registrations leaves
\* the path index and the trigger-flag index as they were and returns the
\* error the call before returned
C20_StartupStepsIdempotent ==
    [][(/\ ret.op \in {"BuildCommandTree", "ValidateCommands"}
        /\ ret'.op = ret.op)
       => /\ commandsPathMap' = commandsPathMap
          /\ flagCommandMap' = flagCommandMap
          /\ ret'.err = ret.err]_vars

\* a second BuildCommandTree has run: a parent holds its child twice, and
\* both indexes are filled
C20_Witness ==
    /\ ret.op = "BuildCommandTree"
    /\ ret.err = Nil
    /\ \E c \in 1..Len(commands) : Len(commands[c].subCommands) = 2
    /\ Len(commands) = 2
    /\ Cardinality(DOMAIN commandsPathMap) = 2
    /\ DOMAIN flagCommandMap # {}

\* the children declared under a parent that was registered only after them
\* (a command's type is its position in the order of registration)
EarlyChildren ==
    {c \in 1..Len(commands) :
        \E i \in 1..Len(commands[c].parentTypes) :
            /\ commands[c].parentTypes[i] > c
            /\ commands[c].parentTypes[i] \in DOMAIN commandsTypeMap}

\* C21: when a child was registered before its parent, and the parent was
\* registered later but before the build, BuildCommandTree fails with a
\* parent-not-found error for that child
C21_ParentsBeforeChildren ==
    Built =>
        \A c \in EarlyChildren :
            \E k \in 1..Len(ret.err) :
                /\ ret.err[k].kind = "parent command type not found for command"
                /\ ret.err[k].b = commands[c].name

\* C22: when no dotted join of leading dash-free tokens is in the path index,
\* findBestCmdMatch returns the empty path with all the tokens, and ParseCmd
\* returns the unknown-command error and changes no binding target
C22_UnknownCommand ==
    /\ (ret.op = "findBestCmdMatch" /\ IndexedPrefixes(ret.inArgs) = {}) =>
          (ret.path = "" /\ ret.args = ret.inArgs)
    /\ (ret.op = "ParseCmd" /\ pc # "panic" /\ IndexedPrefixes(ParsedTokens) = {}) =>
          /\ HasKind(ret.err, "unknown command")
          /\ ret.cmd = NoCmd
          /\ \A c \in 1..Len(commands) : \A i \in 1..Len(argValues[c]) : argValues[c][i] = ""
          /\ DOMAIN flagValues = {}

\* the writers made by NewWriter with Quiet set, and every writer got from
\* one of them through V2 or V3 (a derived writer is made after its origin)
RECURSIVE FromQuiet(_)
FromQuiet(w) ==
    \/ cliWriters[w].quiet
    \/ \E o \in 1..(w - 1) :
          /\ cliWriters[o].v2 = w \/ cliWriters[o].v3 = w
          /\ FromQuiet(o)

\* C23: Printf on a writer made quiet by NewWriter, and on every writer got
\* from it by V2 or V3, emits nothing
C23_QuietSilencesDerived ==
    (ret.op = "Printf" /\ FromQuiet(ret.cmd)) => ret.args = << >>

\* the verbosity NewWriter was last called with: that of the writer it made,
\* or the one its panic reports
NewWriterVerbosity ==
    IF ret.err # Nil THEN ret.err[1].a ELSE ToString(cliWriters[ret.cmd].verbosity)

\* C24: NewWriter with a verbosity that ParseVerbosity accepts, 0 among them,
\* returns a writer and does not panic; ParseVerbosity rejects exactly the
\* values below 0 and above 3
C24_AcceptedVerbosityBuildsWriter ==
    /\ \A v \in -2..5 : (ParseVerbosity(v) # Nil) <=> (v < 0 \/ v > 3)
    /\ (ret.op = "NewWriter" /\ NewWriterVerbosity \in {"0", "1", "2", "3"}) =>
          (pc # "panic" /\ ret.cmd # 0)

\* what raw-flag validation reports for the command line of the call
PhaseRawResult ==
    validateFlags(commands[ret.cmd].flagSets, GetFlagSet, extractFlags(ret.inArgs))

NoTargetBound ==
    \A c \in 1..Len(commands) : \A i \in 1..Len(argValues[c]) : argValues[c][i] = ""

\* C25: ParseCmd returns no error only when a command was resolved and
\* flag-set parsing, raw-flag validation and argument assignment all
\* succeeded; a flag-set failure is reported before an unknown flag, and after
\* either of them no argument target is bound
C25_ParseCmdGates ==
    ret.op = "ParseCmd" =>
        /\ ret.err = Nil =>
              /\ ret.cmd # NoCmd
              /\ PhaseFlagResult.err = Nil
              /\ PhaseRawResult = Nil
              /\ PhaseArgResult.err = Nil
        /\ (ret.cmd # NoCmd /\ PhaseFlagResult.err # Nil) =>
              (HasKind(ret.err, "flags parsing failed") /\ NoTargetBound)
        /\ (ret.cmd # NoCmd /\ PhaseFlagResult.err = Nil /\ PhaseRawResult # Nil) =>
              (HasKind(ret.err, "unknown flag(s)") /\ NoTargetBound)

\* an unknown flag stops ParseCmd although a token is at hand for a target of
\* the resolved command
C25_Witness ==
    /\ ret.op = "ParseCmd"
    /\ ret.cmd # NoCmd
    /\ HasKind(ret.err, "unknown flag(s)")
    /\ Len(commands[ret.cmd].argDefs) >= 1
    /\ \E i \in 1..Len(PhaseFlagResult.args) : ~HasPrefix(PhaseFlagResult.args[i], "-")
    /\ NoTargetBound

ResolutionCalls ==
    {"GetExactCommand", "GetDefaultCommand", "findBestCmdMatch", "transformFlagCommands",
     "ParseCmd"}

\* C26: once the tree is built, no call of GetExactCommand, GetDefaultCommand,
\* findBestCmdMatch, transformFlagCommands or ParseCmd changes the command
\* list with its child lists, the type index, the path index, the
\* trigger-flag index or the global flag set
C26_ResolutionLeavesRegistry ==
    [][(pc = "ready" /\ ret'.op \in ResolutionCalls)
       => UNCHANGED << commands, commandsTypeMap, commandsPathMap, flagCommandMap,
                       flagset >>]_vars

\* a ParseCmd call that resolved a command through a delegate, made after an
\* earlier call, on a registry with a child list and a trigger flag
C26_Witness ==
    /\ ret.op = "ParseCmd"
    /\ ret.cmd # NoCmd
    /\ commands[ret.cmd].name # ret.inArgs[1]
    /\ \E c \in 1..Len(commands) : Len(commands[c].subCommands) >= 1
    /\ DOMAIN flagCommandMap # {}

\* the package functions that read the variable writer
HandleReaders == {"GetWriter", "Loud", "Printf", "Errorf"}

\* C27: no goroutine is at its read of the package variable writer while
\* another one is at SetWriter's write to it
C27_HandleGuarded ==
    \A g, h \in Goroutines :
        goroutines[g].at = "SetWriter" => goroutines[h].at \notin HandleReaders

\* what findBestCmdMatch returns for the tokens of the ParseCmd call
MatchOfCall == findBestCmdMatch(commands, commandsTypeMap, commandsPathMap, ParsedTokens)

\* C28: after a successful build, a path that findBestCmdMatch returns, a
\* delegate's path included, is a key of the path index with a command
\* behind it, and ParseCmd does not return the command-not-found error
C28_MatchedPathIsIndexed ==
    /\ (ret.op = "findBestCmdMatch" /\ pc = "ready" /\ ret.path # "") =>
          GetExactCommand(commandsPathMap, ret.path) # NoCmd
    /\ (ret.op = "ParseCmd" /\ pc = "ready") =>
          /\ MatchOfCall.path # "" =>
                GetExactCommand(commandsPathMap, MatchOfCall.path) # NoCmd
          /\ ~HasKind(ret.err, "command not found")

\* ParseCmd resolved a command under a path that delegation substituted:
\* the path is no dotted join of leading tokens
C28_Witness ==
    /\ ret.op = "ParseCmd"
    /\ pc = "ready"
    /\ ret.cmd # NoCmd
    /\ MatchOfCall.path # ""
    /\ \A k \in 1..Len(ParsedTokens) : MatchOfCall.path # JoinDots(ParsedTokens, k)

\* the first command in registration order that declares a missing parent
Offender == CHOOSE c \in Orphans : \A d \in Orphans : c <= d

\* the state a build leaves that met a missing parent: the commands before
\* the offending child are indexed under their full names and are in the
\* child list of each declared parent, the commands after it are behind no
\* key of the path index, and the index of trigger flag-names is empty
LeftPartial ==
    /\ \A c \in 1..(Offender - 1) :
          /\ \A i \in 1..Len(FullNames(commands, commandsTypeMap, c).names) :
                FullNames(commands, commandsTypeMap, c).names[i] \in DOMAIN commandsPathMap
          /\ \A i \in 1..Len(commands[c].parentTypes) :
                InSeq(c, commands[commandsTypeMap[commands[c].parentTypes[i]]].subCommands)
    /\ \A c \in (Offender + 1)..Len(commands) :
          \A k \in DOMAIN commandsPathMap : commandsPathMap[k] # c
    /\ DOMAIN flagCommandMap = {}

\* C29: a build over a registry with a missing parent stops at the first
\* command in registration order that declares one, returning the error that
\* names that command, and leaves the partial state: earlier commands
\* indexed and in their parents' child lists, later ones not indexed, the
\* trigger-flag index not populated.
C29_StopsAtFirstMissingParent ==
    (Built /\ Orphans # {}) =>
        /\ pc = "failed"
        /\ \E i \in 1..Len(commands[Offender].parentTypes) :
              ret.err = ParentNotFound(commands[Offender].parentTypes[i],
                                       commands[Offender].name)
        /\ LeftPartial

\* the part of C29 that describes the state left behind, where the build
\* returned the error
PartialWhereReturned ==
    (Built /\ Orphans # {} /\ pc = "failed") => LeftPartial

\* the children declared under parent p, in the order of registration
DeclaredChildren(p) ==
    SelectSeq([c \in 1..Len(commands) |-> c],
              LAMBDA c : \E i \in 1..Len(commands[c].parentTypes) :
                            Get(commandsTypeMap, commands[c].parentTypes[i]) = p)

\* C30: every successful BuildCommandTree appends to each parent's child
\* list each child declared under it, once per parent link and in the order
\* of registration; the lists start empty, so after one build they hold each
\* child once and after m builds m times
C30_EachBuildAppendsEveryChild ==
    [][(ret'.op = "BuildCommandTree" /\ ret'.err = Nil /\ pc' = "ready")
       => \A p \in 1..Len(commands) :
             commands'[p].subCommands = commands[p].subCommands \o DeclaredChildren(p)]_vars

\* a parent of two children after a second build: its list holds the two,
\* in the order of registration, twice over; one of them is under a second
\* parent as well
C30_Witness ==
    /\ ret.op = "BuildCommandTree"
    /\ pc = "ready"
    /\ \E p \in 1..Len(commands) :
          /\ Len(DeclaredChildren(p)) = 2
          /\ commands[p].subCommands = DeclaredChildren(p) \o DeclaredChildren(p)
    /\ \E c \in 1..Len(commands) : Len(commands[c].parentTypes) = 2

====
